---- MODULE Spec2Model ----
(***************************************************************************)
(* MyMCP: an OpenAPI document is turned into an MCP server (createMCP).    *)
(* The repository carries two revisions of createMCP: src/src/mcp.ts and   *)
(* src/unnamed/part_000.  The variable rev says which one is running.      *)
(* Strings are sequences of one-character strings, so that the string      *)
(* functions of the code (replace, includes, split, btoa ...) are computed *)
(* and not assumed.                                                        *)
(***************************************************************************)
EXTENDS Integers, Sequences, FiniteSets, TLC

VARIABLES
    rev,        \* the revision of createMCP that is running
    doc,        \* the OpenAPI document createMCP was given
    build,      \* createTools in progress: [pc, rest, acc, result]
    sse,        \* the POST /sse request being handled: [pc, req, reply, calls, answer]
    served,     \* number of POST /sse requests answered so far
    ws,         \* the WebSocket stream session: [pc, id, model, tool, sent, closed, ...]
    codec,      \* POST /stream and the decode of its task id: [pc, body, reply, decoded]
    invoke,     \* the POST /invoke request being handled: [pc, body, reply, requests, answer]
    listing,    \* createModels runs: [pc, runs, first, last]
    refs,       \* findSchema calls: [pc, tr, schema, first, second, cur, ctx, depth]
    urlcall     \* buildApiUrl in progress: [pc, host, path, pathParameters, queryParameters, processedPath, result]

vars == <<rev, doc, build, sse, served, ws, codec, invoke, listing, refs, urlcall>>

\* ------------------------------------------------------------- bounds
MaxOps == 3          \* operations per document (tool catalog checks)
MaxCatalogOps == 2   \* operations per document (tool parameter checks)
MaxRequests == 2     \* POST /sse requests per behaviour
MaxInbox == 2        \* client messages per stream session

\* ------------------------------------------------------------- strings
LowerAlpha == <<"a","b","c","d","e","f","g","h","i","j","k","l","m",
                "n","o","p","q","r","s","t","u","v","w","x","y","z">>
UpperAlpha == <<"A","B","C","D","E","F","G","H","I","J","K","L","M",
                "N","O","P","Q","R","S","T","U","V","W","X","Y","Z">>
Digits == {"0","1","2","3","4","5","6","7","8","9"}

Range(s) == {s[i] : i \in DOMAIN s}

ToLowerChar(c) ==
    IF \E i \in DOMAIN UpperAlpha : UpperAlpha[i] = c
    THEN LowerAlpha[CHOOSE i \in DOMAIN UpperAlpha : UpperAlpha[i] = c]
    ELSE c

ToUpperChar(c) ==
    IF \E i \in DOMAIN LowerAlpha : LowerAlpha[i] = c
    THEN UpperAlpha[CHOOSE i \in DOMAIN LowerAlpha : LowerAlpha[i] = c]
    ELSE c

ToLowerCase(s) == [i \in DOMAIN s |-> ToLowerChar(s[i])]
ToUpperCase(s) == [i \in DOMAIN s |-> ToUpperChar(s[i])]

\* [a-z0-9] with the i flag
IsAlnumI(c) == c \in Range(LowerAlpha) \cup Range(UpperAlpha) \cup Digits

\* String.prototype.includes
Includes(s, sub) ==
    \E i \in 0..(Len(s) - Len(sub)) : SubSeq(s, i + 1, i + Len(sub)) = sub

\* the index of the first occurrence of the character c in s, 0 if none
IndexOfChar(s, c) ==
    IF \E i \in DOMAIN s : s[i] = c
    THEN CHOOSE i \in DOMAIN s : s[i] = c /\ \A j \in 1..(i - 1) : s[j] # c
    ELSE 0

\* String.prototype.split(sep) for a one-character separator
RECURSIVE Split(_, _)
Split(s, c) ==
    LET i == IndexOfChar(s, c)
    IN  IF i = 0 THEN <<s>>
        ELSE <<SubSeq(s, 1, i - 1)>> \o Split(SubSeq(s, i + 1, Len(s)), c)

\* .replace(/^_+|_+$/g, '')
RECURSIVE TrimUnderscores(_)
TrimUnderscores(s) ==
    IF s = <<>> THEN s
    ELSE IF Head(s) = "_" THEN TrimUnderscores(Tail(s))
    ELSE IF s[Len(s)] = "_" THEN TrimUnderscores(SubSeq(s, 1, Len(s) - 1))
    ELSE s

\* the strings the documents and requests below are made of
S_get == <<"g","e","t">>
S_GET == <<"G","E","T">>
S_post == <<"p","o","s","t">>
S_trace == <<"t","r","a","c","e">>
S_path == <<"p","a","t","h">>
S_query == <<"q","u","e","r","y">>
S_id == <<"i","d">>
S_json == <<"a","p","p","l","i","c","a","t","i","o","n","/","j","s","o","n">>
S_text == <<"t","e","x","t","/","p","l","a","i","n">>
S_put == <<"p","u","t">>
S_header == <<"h","e","a","d","e","r">>
P_pets_id == <<"/","p","e","t","s","/","{","i","d","}">>
Id_getPet == <<"g","e","t","P","e","t">>
P_a == <<"/","a">>
P_a_b == <<"/","a","/","b">>
P_a_id == <<"/","a","/","{","i","d","}">>
Id_get_a == <<"g","e","t","_","a">>
Id_op == <<"o","p">>
Id_nope == <<"n","o","p","e">>
Id_toString == <<"t","o","S","t","r","i","n","g">>
Id_constructor == <<"c","o","n","s","t","r","u","c","t","o","r">>

\* ------------------------------------------------------------- JS objects
\* Names every object literal {} inherits from Object.prototype: map[k] is a
\* function (or an object) for these, whatever createTools stored.
ProtoKeys == {Id_toString, Id_constructor}

Undefined == [t |-> "undefined"]
Builtin == [t |-> "builtin"]
JsStr(s) == [t |-> "string", v |-> s]
JsBool(b) == [t |-> "boolean", v |-> b]
JsNull == [t |-> "null"]
JsNum(n) == [t |-> "number", v |-> n]
Absent == [absent |-> TRUE]

\* obj[key] for an object literal whose own properties are the function own
Lookup(own, key) ==
    IF key \in DOMAIN own THEN JsStr(own[key])
    ELSE IF key \in ProtoKeys THEN Builtin
    ELSE Undefined

\* truthiness of a value read from a request or from an object
Truthy(v) ==
    CASE v.t = "undefined" -> FALSE
      [] v.t = "null" -> FALSE
      [] v.t = "string" -> v.v # <<>>
      [] v.t = "boolean" -> v.v
      [] v.t = "number" -> v.v # 0
      [] OTHER -> TRUE

\* ------------------------------------------------------------- characters
\* The printable ASCII characters, code 32 to 126, in code order.  Any other
\* UTF-16 code unit n is written "U+n" (as is the grave accent, code 96).
Ascii == <<" ","!","\"","#","$","%","&","'","(",")","*","+",",","-",".","/",
          "0","1","2","3","4","5","6","7","8","9",":",";","<","=",">","?",
          "@","A","B","C","D","E","F","G","H","I","J","K","L","M","N","O",
          "P","Q","R","S","T","U","V","W","X","Y","Z","[","\\","]","^","_",
          "U+96","a","b","c","d","e","f","g","h","i","j","k","l","m","n","o",
          "p","q","r","s","t","u","v","w","x","y","z","{","|","}","~">>

C_eacute == "U+233"      \* a Latin-1 character outside ASCII
C_euro == "U+8364"       \* a character outside Latin-1

OtherCodes == (0..31) \cup (127..255) \cup {8364}

CharOf(n) == IF n \in 32..126 THEN Ascii[n - 31] ELSE "U+" \o ToString(n)

CodeOf(c) ==
    IF \E i \in DOMAIN Ascii : Ascii[i] = c
    THEN 31 + (CHOOSE i \in DOMAIN Ascii : Ascii[i] = c)
    ELSE CHOOSE n \in OtherCodes : CharOf(n) = c

\* ------------------------------------------------------------- btoa / atob
Base64Alphabet == <<"A","B","C","D","E","F","G","H","I","J","K","L","M","N","O","P",
                   "Q","R","S","T","U","V","W","X","Y","Z","a","b","c","d","e","f",
                   "g","h","i","j","k","l","m","n","o","p","q","r","s","t","u","v",
                   "w","x","y","z","0","1","2","3","4","5","6","7","8","9","+","/">>

SextetOf(c) == (CHOOSE i \in DOMAIN Base64Alphabet : Base64Alphabet[i] = c) - 1
IsBase64Char(c) == \E i \in DOMAIN Base64Alphabet : Base64Alphabet[i] = c

Thrown == [threw |-> TRUE]
Returned(v) == [threw |-> FALSE, value |-> v]

RECURSIVE EncodeBytes(_)
EncodeBytes(b) ==
    IF b = <<>> THEN <<>>
    ELSE IF Len(b) = 1
         THEN <<Base64Alphabet[(b[1] \div 4) + 1], Base64Alphabet[((b[1] % 4) * 16) + 1],
                "=", "=">>
    ELSE IF Len(b) = 2
         THEN <<Base64Alphabet[(b[1] \div 4) + 1],
                Base64Alphabet[((b[1] % 4) * 16 + b[2] \div 16) + 1],
                Base64Alphabet[((b[2] % 16) * 4) + 1], "=">>
    ELSE <<Base64Alphabet[(b[1] \div 4) + 1],
           Base64Alphabet[((b[1] % 4) * 16 + b[2] \div 16) + 1],
           Base64Alphabet[((b[2] % 16) * 4 + b[3] \div 64) + 1],
           Base64Alphabet[(b[3] % 64) + 1]>> \o EncodeBytes(SubSeq(b, 4, Len(b)))

\* btoa: InvalidCharacterError for a character outside Latin-1
btoa(s) ==
    IF \E i \in DOMAIN s : CodeOf(s[i]) > 255 THEN Thrown
    ELSE Returned(EncodeBytes([i \in DOMAIN s |-> CodeOf(s[i])]))

RECURSIVE DecodeSextets(_)
DecodeSextets(x) ==
    IF Len(x) < 2 THEN <<>>
    ELSE IF Len(x) = 2 THEN <<x[1] * 4 + x[2] \div 16>>
    ELSE IF Len(x) = 3 THEN <<x[1] * 4 + x[2] \div 16, (x[2] % 16) * 16 + x[3] \div 4>>
    ELSE <<x[1] * 4 + x[2] \div 16, (x[2] % 16) * 16 + x[3] \div 4, (x[3] % 4) * 64 + x[4]>>
         \o DecodeSextets(SubSeq(x, 5, Len(x)))

IsNotSpace(c) == c # " "

\* one or two trailing = are removed when the length is a multiple of four
StripPadding(t) ==
    IF Len(t) % 4 = 0 /\ Len(t) > 0 /\ t[Len(t)] = "="
    THEN IF t[Len(t) - 1] = "=" THEN SubSeq(t, 1, Len(t) - 2) ELSE SubSeq(t, 1, Len(t) - 1)
    ELSE t

\* atob (forgiving-base64 decode): InvalidCharacterError for a length of
\* 4k+1 or a character outside the alphabet
atob(text) ==
    LET t == StripPadding(SelectSeq(text, IsNotSpace))
    IN  IF Len(t) % 4 = 1 \/ \E i \in DOMAIN t : ~IsBase64Char(t[i]) THEN Thrown
        ELSE LET bytes == DecodeSextets([i \in DOMAIN t |-> SextetOf(t[i])])
             IN  Returned([i \in DOMAIN bytes |-> CharOf(bytes[i])])

\* ------------------------------------------------------------- JSON
\* JSON values: JsNull, JsStr(s), JsObj(<<k1, v1>>, <<k2, v2>>, ...) with
\* distinct keys in insertion order.
JsObj(fields) == [t |-> "object", fields |-> fields]

\* obj[key] of a parsed value; a primitive other than null has no members
Member(v, key) ==
    IF v.t = "object" /\ \E i \in DOMAIN v.fields : v.fields[i][1] = key
    THEN v.fields[CHOOSE i \in DOMAIN v.fields : v.fields[i][1] = key][2]
    ELSE Undefined

RECURSIVE EscapeChars(_)
EscapeChars(s) ==
    IF s = <<>> THEN <<>>
    ELSE (IF Head(s) = "\"" \/ Head(s) = "\\" THEN <<"\\", Head(s)>> ELSE <<Head(s)>>)
         \o EscapeChars(Tail(s))

Quote(s) == <<"\"">> \o EscapeChars(s) \o <<"\"">>

RECURSIVE Stringify(_)
RECURSIVE StringifyFields(_)
StringifyFields(fields) ==
    IF fields = <<>> THEN <<>>
    ELSE Quote(Head(fields)[1]) \o <<":">> \o Stringify(Head(fields)[2])
         \o (IF Len(fields) > 1 THEN <<",">> ELSE <<>>) \o StringifyFields(Tail(fields))

\* JSON.stringify
Stringify(v) ==
    CASE v.t = "null" -> <<"n","u","l","l">>
      [] v.t = "string" -> Quote(v.v)
      [] v.t = "object" -> <<"{">> \o StringifyFields(v.fields) \o <<"}">>

Failed == [ok |-> FALSE]
Parsed(v, rest) == [ok |-> TRUE, v |-> v, rest |-> rest]

\* the characters of a string literal after its opening quote
RECURSIVE ParseChars(_, _)
ParseChars(s, out) ==
    IF s = <<>> THEN Failed
    ELSE IF Head(s) = "\"" THEN Parsed(JsStr(out), Tail(s))
    ELSE IF Head(s) = "\\"
         THEN IF Len(s) > 1 /\ (s[2] = "\"" \/ s[2] = "\\")
              THEN ParseChars(SubSeq(s, 3, Len(s)), Append(out, s[2]))
              ELSE Failed
    ELSE IF CodeOf(Head(s)) < 32 THEN Failed
    ELSE ParseChars(Tail(s), Append(out, Head(s)))

RECURSIVE ParseValue(_)
RECURSIVE ParseMembers(_, _)
\* the members of an object after `{` or after a comma
ParseMembers(s, fields) ==
    IF s = <<>> \/ Head(s) # "\"" THEN Failed
    ELSE LET k == ParseChars(Tail(s), <<>>)
         IN  IF ~k.ok \/ k.rest = <<>> \/ Head(k.rest) # ":" THEN Failed
             ELSE LET v == ParseValue(Tail(k.rest))
                  IN  IF ~v.ok \/ v.rest = <<>> THEN Failed
                      ELSE LET kept == SelectSeq(fields, LAMBDA f : f[1] # k.v.v)
                               now == Append(kept, <<k.v.v, v.v>>)
                           IN  IF Head(v.rest) = "}" THEN Parsed(JsObj(now), Tail(v.rest))
                               ELSE IF Head(v.rest) = "," THEN ParseMembers(Tail(v.rest), now)
                               ELSE Failed

ParseValue(s) ==
    IF s = <<>> THEN Failed
    ELSE IF Head(s) = "\"" THEN ParseChars(Tail(s), <<>>)
    ELSE IF Len(s) >= 4 /\ SubSeq(s, 1, 4) = <<"n","u","l","l">>
         THEN Parsed(JsNull, SubSeq(s, 5, Len(s)))
    ELSE IF Head(s) = "{"
         THEN IF Len(s) > 1 /\ s[2] = "}" THEN Parsed(JsObj(<<>>), SubSeq(s, 3, Len(s)))
              ELSE ParseMembers(Tail(s), <<>>)
    ELSE Failed

\* JSON.parse: SyntaxError unless the whole text is one value
JsonParse(text) ==
    LET r == ParseValue(text)
    IN  IF r.ok /\ r.rest = <<>> THEN Returned(r.v) ELSE Thrown

\* ------------------------------------------------------------- schemas
K_ref == <<"$","r","e","f">>
K_defs == <<"$","d","e","f","s">>
K_properties == <<"p","r","o","p","e","r","t","i","e","s">>
K_items == <<"i","t","e","m","s">>
K_description == <<"d","e","s","c","r","i","p","t","i","o","n">>
K_required == <<"r","e","q","u","i","r","e","d">>
K_type == <<"t","y","p","e">>
K_body == <<"b","o","d","y">>
S_object == <<"o","b","j","e","c","t">>
S_array == <<"a","r","r","a","y">>
S_string == <<"s","t","r","i","n","g">>
ComponentsPrefix ==
    <<"#","/","c","o","m","p","o","n","e","n","t","s","/","s","c","h","e","m","a","s","/">>
DefsPrefix == <<"#","/","$","d","e","f","s","/">>
DefsSegment == <<"/","$","d","e","f","s","/">>

JsArr(items) == [t |-> "array", items |-> items]
Ref(target) == JsObj(<< <<K_ref, JsStr(target)>> >>)
ComponentRef(name) == Ref(ComponentsPrefix \o name)
DefsRef(name) == Ref(DefsPrefix \o name)
ExactDefsRef(schemaName, name) == Ref(ComponentsPrefix \o schemaName \o DefsSegment \o name)
TypeSchema(type) == JsObj(<< <<K_type, JsStr(type)>> >>)
Described(type, text) == JsObj(<< <<K_type, JsStr(type)>>, <<K_description, JsStr(text)>> >>)

StartsWith(s, prefix) == Len(s) >= Len(prefix) /\ SubSeq(s, 1, Len(prefix)) = prefix
DropPrefix(s, prefix) == SubSeq(s, Len(prefix) + 1, Len(s))

\* `key in obj`: own or inherited; a primitive on the right is a TypeError
CanHoldKeys(v) == v.t \in {"object", "array", "builtin"}
HasOwn(v, key) == v.t = "object" /\ \E i \in DOMAIN v.fields : v.fields[i][1] = key
HasKey(v, key) == HasOwn(v, key) \/ key \in ProtoKeys

\* obj[key], own or inherited
Prop(v, key) ==
    IF HasOwn(v, key) THEN Member(v, key)
    ELSE IF v.t \in {"object", "array", "builtin"} /\ key \in ProtoKeys THEN Builtin
    ELSE Undefined

\* {...obj, key: value}: an own key keeps its place, a new one goes last
Assign(obj, key, value) ==
    IF HasOwn(obj, key)
    THEN JsObj([i \in DOMAIN obj.fields |->
                   IF obj.fields[i][1] = key THEN <<key, value>> ELSE obj.fields[i]])
    ELSE JsObj(Append(obj.fields, <<key, value>>))

\* {...a, ...b}; spreading null, undefined or a builtin adds nothing
RECURSIVE AssignAll(_, _)
AssignAll(obj, fields) ==
    IF fields = <<>> THEN obj
    ELSE AssignAll(Assign(obj, Head(fields)[1], Head(fields)[2]), Tail(fields))
Spread(a, b) == IF b.t = "object" THEN AssignAll(a, b.fields) ELSE a

\* the walks `for (const part of defPath) { if (!cur || !part || !(part in cur)) ...;
\* cur = cur[part] }`: the value reached, none, or a TypeError
NoMatch == [kind |-> "none"]
WalkThrew == [kind |-> "threw"]
Reached(v) == [kind |-> "found", value |-> v]
\* Only({e(x) : x \in {v}}) is e(v), with v computed once
Only(S) == CHOOSE x \in S : TRUE

RECURSIVE Walk(_, _)
Walk(cur, parts) ==
    IF parts = <<>> THEN Reached(cur)
    ELSE IF ~Truthy(cur) \/ Head(parts) = <<>> THEN NoMatch
    ELSE IF ~CanHoldKeys(cur) THEN WalkThrew
    ELSE IF ~HasKey(cur, Head(parts)) THEN NoMatch
    ELSE Walk(Prop(cur, Head(parts)), Tail(parts))

\* /^([^/]+)\/\$defs\/(.+)$/ on the remainder of a components reference
SchemaMatch(remainder) ==
    LET i == IndexOfChar(remainder, "/")
    IN  IF i > 1 /\ StartsWith(SubSeq(remainder, i, Len(remainder)), DefsSegment)
             /\ Len(remainder) > i + Len(DefsSegment) - 1
        THEN [matched |-> TRUE, schemaName |-> SubSeq(remainder, 1, i - 1),
              defPath |-> SubSeq(remainder, i + Len(DefsSegment), Len(remainder))]
        ELSE [matched |-> FALSE]

\* the value of a walk that has to match and be truthy
Matched(w) == w.kind = "found" /\ Truthy(w.value)

\* the component schemas with a $defs that a bare #/$defs reference is
\* looked up in, in the order of Object.keys
SearchWalks(comps, defPath) ==
    LET nodes == SelectSeq(comps.fields,
                     LAMBDA f : Truthy(f[2]) /\ f[2].t \in {"object", "array"}
                                   /\ Truthy(Prop(f[2], K_defs)))
    IN  [i \in DOMAIN nodes |-> Walk(Prop(nodes[i][2], K_defs), defPath)]

\* openapi.components?.schemas || {}
Comps(openapi) == IF Truthy(openapi.schemas) THEN openapi.schemas ELSE JsObj(<<>>)

\* `if (schema && typeof schema === 'object' && '$defs' in schema)`
HoldsDefs(schema) == Truthy(schema) /\ schema.t \in {"object", "array"} /\ HasKey(schema, K_defs)

\* the exact form #/components/schemas/<Name>/$defs/<path>
ExactResult(exact) ==
    CASE exact.kind = "threw" -> Thrown
      [] exact.kind = "none" -> Returned(JsNull)
      [] OTHER -> Returned(exact.value)

\* the bare form, had it used the last matching component schema
BareResultLastMatch(hasLocal, local, hasRoot, root, found) ==
    IF hasLocal /\ local.kind = "threw" THEN Thrown
    ELSE IF hasLocal /\ Matched(local) THEN Returned(local.value)
    ELSE IF hasRoot /\ root.kind = "threw" THEN Thrown
    ELSE IF hasRoot /\ Matched(root) THEN Returned(root.value)
    ELSE IF \E i \in DOMAIN found : found[i].kind = "threw" THEN Thrown
    ELSE IF \E i \in DOMAIN found : Matched(found[i])
    THEN Returned(found[CHOOSE i \in DOMAIN found :
                           Matched(found[i])
                           /\ \A j \in (i + 1)..Len(found) : ~Matched(found[j])].value)
    ELSE Returned(JsNull)

\* the bare form #/$defs/<path>: the local schema, the document root, then
\* the component schemas in key order
BareResult(hasLocal, local, hasRoot, root, found) ==
    IF hasLocal /\ local.kind = "threw" THEN Thrown
    ELSE IF hasLocal /\ Matched(local) THEN Returned(local.value)
    ELSE IF hasRoot /\ root.kind = "threw" THEN Thrown
    ELSE IF hasRoot /\ Matched(root) THEN Returned(root.value)
    ELSE IF \E i \in DOMAIN found : found[i].kind = "threw" THEN Thrown
    ELSE IF \E i \in DOMAIN found : Matched(found[i])
    THEN Returned(found[CHOOSE i \in DOMAIN found :
                           Matched(found[i]) /\ \A j \in 1..(i - 1) : ~Matched(found[j])].value)
    ELSE Returned(JsNull)

BareDefs(openapi, localSchema, defPath) ==
    BareResult(Truthy(localSchema) /\ localSchema.t \in {"object", "array"}
                  /\ Truthy(Prop(localSchema, K_defs)),
               Walk(Prop(localSchema, K_defs), defPath),
               Truthy(openapi.defs),
               Walk(openapi.defs, defPath),
               SearchWalks(Comps(openapi), defPath))

ExactDefs(m, schema) ==
    IF m.matched /\ HoldsDefs(schema)
    THEN Only({ExactResult(Walk(Prop(schema, K_defs), defPath)) :
                  defPath \in {Split(m.defPath, "/")}})
    ELSE Returned(JsNull)

MatchedSchema(comps, m) == IF m.matched THEN Prop(comps, m.schemaName) ELSE Undefined

\* resolveDefsReference: the definition, null, or a TypeError of a walk
resolveDefsReference(openapi, ref, localSchema) ==
    IF ref = <<>> THEN Returned(JsNull)
    ELSE IF StartsWith(ref, ComponentsPrefix)
    THEN Only({ExactDefs(m, MatchedSchema(Comps(openapi), m)) :
                  m \in {SchemaMatch(DropPrefix(ref, ComponentsPrefix))}})
    ELSE IF ~StartsWith(ref, DefsPrefix) THEN Returned(JsNull)
    ELSE BareDefs(openapi, localSchema, Split(DropPrefix(ref, DefsPrefix), "/"))

\* findSchema exists in two revisions: src/src/types.ts, and
\* src/unnamed/part_001 (no guards, no null results of its own)
TypesRevisions == {"types_ts", "part_001"}

MaxRefDepth == 3     \* $ref hops through $defs before the stack is exhausted

S_nullType == JsObj(<< <<K_type, JsStr(<<"n","u","l","l">>)>> >>)

\* the direct form, had it taken the first component schema
DirectSchemaFirst(tr, openapi, schemaName) ==
    IF Truthy(openapi.schemas) /\ openapi.schemas.fields # <<>>
    THEN Returned(openapi.schemas.fields[1][2])
    ELSE Returned(JsNull)

\* the direct form: `openapi.components?.schemas?.[schemaName]`
DirectSchema(tr, openapi, schemaName) ==
    LET foundSchema == Prop(openapi.schemas, schemaName)
    IN  IF tr = "types_ts"
        THEN IF Truthy(foundSchema) THEN Returned(foundSchema) ELSE Returned(JsNull)
        ELSE IF ~Truthy(openapi.schemas) THEN Thrown
        ELSE Returned(foundSchema)

RECURSIVE FindSchema(_, _, _, _, _)
RECURSIVE ResolveProperties(_, _, _, _, _, _)

\* one property of the loop, its reference resolved when it has one
ResolvedProperty(tr, propName, propSchema, resolved, res) ==
    IF res.threw THEN Thrown
    ELSE IF ~HasKey(propSchema, K_ref) THEN Returned(Assign(resolved, propName, propSchema))
    ELSE IF tr = "types_ts" /\ ~Truthy(res.value) THEN Returned(resolved)
    ELSE Returned(Assign(resolved, propName, res.value))

NextProperty(tr, depth, openapi, rest, contextSchema, step) ==
    IF step.threw THEN Thrown
    ELSE ResolveProperties(tr, depth, openapi, rest, contextSchema, step.value)

\* the loop over Object.entries(schema.properties)
ResolveProperties(tr, depth, openapi, entries, contextSchema, resolved) ==
    IF entries = <<>> THEN Returned(resolved)
    ELSE IF tr = "types_ts" /\ (Head(entries)[1] = <<>> \/ ~Truthy(Head(entries)[2]))
    THEN ResolveProperties(tr, depth, openapi, Tail(entries), contextSchema, resolved)
    ELSE IF ~CanHoldKeys(Head(entries)[2]) THEN Thrown
    ELSE NextProperty(tr, depth, openapi, Tail(entries), contextSchema,
             ResolvedProperty(tr, Head(entries)[1], Head(entries)[2], resolved,
                 IF HasKey(Head(entries)[2], K_ref)
                 THEN FindSchema(tr, depth, openapi, Head(entries)[2], contextSchema)
                 ELSE Returned(Undefined)))

\* rootSchema || (schema holds $defs ? schema : undefined)
ContextOf(rootSchema, schema) ==
    IF Truthy(rootSchema) THEN rootSchema
    ELSE IF HoldsDefs(schema) THEN schema ELSE Undefined

\* the branch taken once resolveDefsReference has answered
AfterDefs(tr, depth, openapi, contextSchema, defsResult) ==
    IF defsResult.threw THEN Thrown
    ELSE IF ~Truthy(defsResult.value) THEN Thrown
    ELSE IF ~Truthy(Prop(defsResult.value, K_ref)) THEN Returned(defsResult.value)
    ELSE IF depth = MaxRefDepth THEN Thrown
    ELSE FindSchema(tr, depth + 1, openapi, defsResult.value, contextSchema)

\* the branch `'$ref' in schema`
FindRef(tr, depth, openapi, ref, contextSchema) ==
    IF tr = "types_ts" /\ (~Truthy(ref) \/ ref.t # "string") THEN Returned(JsNull)
    ELSE IF ref.t # "string" THEN Thrown
    ELSE IF StartsWith(ref.v, ComponentsPrefix) /\ ~Includes(ref.v, DefsSegment)
    THEN DirectSchema(tr, openapi, DropPrefix(ref.v, ComponentsPrefix))
    ELSE AfterDefs(tr, depth, openapi, contextSchema,
                   resolveDefsReference(openapi, ref.v, contextSchema))

\* the branch `schema.type === 'object' && schema.properties`
WithProperties(schema, resolvedProperties) ==
    IF resolvedProperties.threw THEN Thrown
    ELSE Returned(Assign(schema, K_properties, resolvedProperties.value))

\* the branch `schema.type === 'array' && schema.items`
WithItems(tr, schema, resolvedItems) ==
    IF resolvedItems.threw THEN Thrown
    ELSE IF tr = "types_ts" /\ ~Truthy(resolvedItems.value)
    THEN Returned(Assign(schema, K_items, S_nullType))
    ELSE Returned(Assign(schema, K_items, resolvedItems.value))

FindArray(tr, depth, openapi, schema, items, contextSchema) ==
    IF ~CanHoldKeys(items) THEN Thrown
    ELSE IF ~HasKey(items, K_ref) THEN Returned(schema)
    ELSE WithItems(tr, schema, FindSchema(tr, depth, openapi, items, contextSchema))

FindObject(tr, depth, openapi, schema, properties, contextSchema) ==
    IF properties.t # "object" THEN Returned(Assign(schema, K_properties, JsObj(<<>>)))
    ELSE WithProperties(schema,
             ResolveProperties(tr, depth, openapi, properties.fields, contextSchema,
                               JsObj(<<>>)))

FindIn(tr, depth, openapi, schema, contextSchema) ==
    IF tr = "types_ts" /\ ~Truthy(schema) THEN Returned(JsNull)
    ELSE IF ~CanHoldKeys(schema) THEN Thrown
    ELSE IF HasKey(schema, K_ref)
    THEN FindRef(tr, depth, openapi, Prop(schema, K_ref), contextSchema)
    ELSE IF Prop(schema, K_type) = JsStr(S_object) /\ Truthy(Prop(schema, K_properties))
    THEN FindObject(tr, depth, openapi, schema, Prop(schema, K_properties), contextSchema)
    ELSE IF Prop(schema, K_type) = JsStr(S_array)
              /\ (tr = "part_001" \/ Truthy(Prop(schema, K_items)))
    THEN FindArray(tr, depth, openapi, schema, Prop(schema, K_items), contextSchema)
    ELSE Returned(schema)

\* findSchema(openapi, schema, rootSchema); depth counts the nested calls made
\* through `defsResult.$ref`, which end in a RangeError on a cycle
FindSchema(tr, depth, openapi, schema, rootSchema) ==
    FindIn(tr, depth, openapi, schema, ContextOf(rootSchema, schema))

findSchema(tr, openapi, schema) == FindSchema(tr, 0, openapi, schema, Undefined)

\* ------------------------------------------------------------- documents
\* An operation of the document: openapi.paths[path][method].  operationId
\* <<>> stands for an absent (or empty) operationId: both are falsy in
\* `details.operationId || ...`.  parameters.defined is FALSE when the
\* operation has no `parameters` member.
\* A parameter carries its description (<<>> when absent or empty, both falsy
\* in `param.description || ''`) and its schema.  requestBody.defined is FALSE
\* when the operation has no `requestBody`, hasContent says whether it has a
\* `content` member, and content is the sequence of <<content type, schema or
\* Undefined>> in key order.
ParamOf(in, name, required, description, schema) ==
    [in |-> in, name |-> name, required |-> required, description |-> description,
     schema |-> schema]
Param(in, name, required) == ParamOf(in, name, required, <<>>, TypeSchema(S_string))
NoParameters == [defined |-> FALSE, list |-> <<>>]
Parameters(list) == [defined |-> TRUE, list |-> list]
NoRequestBody == [defined |-> FALSE, required |-> FALSE, hasContent |-> FALSE, content |-> <<>>]
RequestBody(required, content) ==
    [defined |-> TRUE, required |-> required, hasContent |-> TRUE, content |-> content]
OpWithBody(path, method, operationId, parameters, requestBody) ==
    [path |-> path, method |-> method, operationId |-> operationId,
     parameters |-> parameters, requestBody |-> requestBody]
Op(path, method, operationId, parameters) ==
    OpWithBody(path, method, operationId, parameters, NoRequestBody)

\* The operations documents are drawn from.  Two paths sanitize to the same
\* derived id (P_a and P_a_ give get_a), one declares the id another derives,
\* two declare the same id, one has a method outside validMethods, one
\* declares a path parameter that its path does not contain.
P_a_ == <<"/","a","/">>
OpPool ==
    { Op(P_a, S_get, <<>>, NoParameters),
      Op(P_a, S_post, Id_op, NoParameters),
      Op(P_a_, S_get, <<>>, NoParameters),
      Op(P_a_, S_post, Id_get_a, NoParameters),
      Op(P_a_id, S_GET, Id_op, Parameters(<<Param(S_path, S_id, TRUE)>>)),
      Op(P_a_b, S_get, Id_op, Parameters(<<Param(S_path, S_id, TRUE)>>)),
      Op(P_a_b, S_trace, Id_get_a, NoParameters) }

\* Object.entries(openapi.paths).flatMap(... Object.entries(methods)): the
\* (path, method) pairs are distinct keys and the methods of one path are
\* adjacent.
IterationOrder(ops) ==
    /\ \A i, j \in DOMAIN ops :
          (i # j) => ~(ops[i].path = ops[j].path /\ ops[i].method = ops[j].method)
    /\ \A i, j, k \in DOMAIN ops :
          (i < j /\ j < k /\ ops[i].path = ops[k].path) => ops[j].path = ops[i].path

SeqsUpTo(S, n) == UNION {[1..m -> S] : m \in 0..n}

T_title == <<"M","y"," ","A","P","I","!">>
U_one == <<"h","t","t","p","s",":","/","/","x">>
U_two == <<"h","t","t","p","s",":","/","/","y">>

DocumentAt(servers, ops) ==
    [title |-> T_title, servers |-> servers, ops |-> ops, schemas |-> Undefined,
     defs |-> Undefined]
Document(ops) == DocumentAt(<<U_one, U_two>>, ops)

Documents == {Document(ops) : ops \in {o \in SeqsUpTo(OpPool, MaxOps) : IterationOrder(o)}}

\* ------------------------------------------------------------- catalog
\* .replace(/[^a-z0-9]+/g, '_'): every run of other characters becomes one _
RECURSIVE CollapseRuns(_)
CollapseRuns(s) ==
    IF s = <<>> THEN s
    ELSE IF Head(s) \in Range(LowerAlpha) \cup Digits
         THEN <<Head(s)>> \o CollapseRuns(Tail(s))
    ELSE IF Len(s) > 1 /\ s[2] \notin Range(LowerAlpha) \cup Digits
         THEN CollapseRuns(Tail(s))
    ELSE <<"_">> \o CollapseRuns(Tail(s))

\* toMachineName, had it lacked the last replace
toMachineNameUntrimmed(name) == CollapseRuns(ToLowerCase(name))

toMachineName(name) == TrimUnderscores(CollapseRuns(ToLowerCase(name)))

ModelId(d, url) == <<"a","p","i",":">> \o toMachineName(d.title) \o <<":">> \o url

createModels(d) == [i \in DOMAIN d.servers |-> [id |-> ModelId(d, d.servers[i])]]

validMethods == {S_get, S_post, S_put, <<"d","e","l","e","t","e">>,
                 <<"p","a","t","c","h">>, <<"h","e","a","d">>,
                 <<"o","p","t","i","o","n","s">>}

\* path.replace(/[^a-z0-9]/gi, '_'): character by character
ReplaceNonAlnum(s) == [i \in DOMAIN s |-> IF IsAlnumI(s[i]) THEN s[i] ELSE "_"]

OperationId(op) ==
    IF op.operationId # <<>> THEN op.operationId
    ELSE op.method \o <<"_">> \o TrimUnderscores(ReplaceNonAlnum(op.path))

\* the check of the declared path parameters against the path
PathParamsInPath(op) ==
    \A i \in DOMAIN op.parameters.list :
        LET p == op.parameters.list[i]
        IN  p.in = S_path =>
              \/ Includes(op.path, <<"{">> \o p.name \o <<"}">>)
              \/ Includes(op.path, <<":">> \o p.name)

MethodAndPath(op) == ToUpperCase(op.method) \o <<" ">> \o op.path

Put(f, k, v) == [x \in DOMAIN f \cup {k} |-> IF x = k THEN v ELSE f[x]]

Null == [isNull |-> TRUE]
EmptyAcc == [items |-> <<>>, toolMap |-> <<>>, contentTypeMap |-> <<>>, seen |-> {}]
Skip(acc) == [acc EXCEPT !.items = Append(@, Null)]

\* details.requestBody && 'content' in details.requestBody
HasContent(op) == op.requestBody.defined /\ op.requestBody.hasContent

\* content['application/json'], Undefined when the key is absent
JsonContent(content) ==
    IF \E i \in DOMAIN content : content[i][1] = S_json
    THEN content[CHOOSE i \in DOMAIN content : content[i][1] = S_json][2]
    ELSE Undefined

\* Object.keys(content)[0] || 'application/json'
ContentType(op) ==
    IF HasContent(op) /\ op.requestBody.content # <<>>
          /\ op.requestBody.content[1][1] # <<>>
    THEN op.requestBody.content[1][1]
    ELSE S_json

ParameterName(param) == param.in \o <<"-">> \o param.name

\* for (const param of details.parameters) parameters[name] = {description, ...schema}
RECURSIVE AddParameters(_, _, _)
AddParameters(d, list, parameters) ==
    IF list = <<>> THEN parameters
    ELSE LET param == Head(list)
             schema == findSchema("types_ts", d, param.schema).value
         IN  AddParameters(d, Tail(list),
                 Assign(parameters, ParameterName(param),
                        Spread(JsObj(<< <<K_description, JsStr(param.description)>> >>),
                               schema)))

\* parameters['body'] = findSchema(openapi, content['application/json'].schema)
BodyProperty(d, op) ==
    IF HasContent(op) /\ Truthy(JsonContent(op.requestBody.content))
    THEN JsObj(<< <<K_body,
                   findSchema("types_ts", d, JsonContent(op.requestBody.content)).value>> >>)
    ELSE JsObj(<<>>)

\* the `parameters` record before it is wrapped
Properties(d, op) ==
    AddParameters(d, IF op.parameters.defined THEN op.parameters.list ELSE <<>>,
                  BodyProperty(d, op))

\* the predicate of Object.keys(parameters).filter(...)
IsRequired(op, name) ==
    IF op.parameters.defined
    THEN IF \E i \in DOMAIN op.parameters.list :
                 ParameterName(op.parameters.list[i]) = name
         THEN LET first == CHOOSE i \in DOMAIN op.parameters.list :
                               /\ ParameterName(op.parameters.list[i]) = name
                               /\ \A j \in 1..(i - 1) :
                                     ParameterName(op.parameters.list[j]) # name
              IN  op.parameters.list[first].required
         ELSE FALSE
    ELSE IF name = K_body /\ op.requestBody.defined THEN op.requestBody.required
    ELSE FALSE

Keys(obj) == [i \in DOMAIN obj.fields |-> obj.fields[i][1]]

RECURSIVE RequiredKeys(_, _)
RequiredKeys(op, names) ==
    IF names = <<>> THEN <<>>
    ELSE (IF IsRequired(op, Head(names)) THEN <<Head(names)>> ELSE <<>>)
         \o RequiredKeys(op, Tail(names))
StrArr(names) == JsArr([i \in DOMAIN names |-> JsStr(names[i])])

\* parameters0
Wrapped(op, parameters) ==
    IF Len(parameters.fields) > 0
    THEN JsObj(<< <<K_type, JsStr(S_object)>>,
                  <<K_properties, parameters>>,
                  <<K_required, StrArr(RequiredKeys(op, Keys(parameters)))>> >>)
    ELSE Undefined

ToolParameters(d, op) == Wrapped(op, Properties(d, op))

Keep(d, acc, op, remember) ==
    [items |-> Append(acc.items, [id |-> OperationId(op), name |-> MethodAndPath(op),
                                  parameters |-> ToolParameters(d, op)]),
     toolMap |-> Put(acc.toolMap, OperationId(op), MethodAndPath(op)),
     contentTypeMap |-> Put(acc.contentTypeMap, OperationId(op), ContentType(op)),
     seen |-> IF remember THEN acc.seen \cup {OperationId(op)} ELSE acc.seen]

\* the callback, had it looked up and reserved the operationId before the
\* path parameter check
ToolCallbackReserving(d, acc, op) ==
    IF ToLowerCase(op.method) \notin validMethods THEN Skip(acc)
    ELSE IF OperationId(op) \in acc.seen THEN Skip(acc)
    ELSE IF op.parameters.defined /\ ~PathParamsInPath(op)
         THEN [Skip(acc) EXCEPT !.seen = @ \cup {OperationId(op)}]
    ELSE Keep(d, acc, op, TRUE)

\* the callback createTools maps over the operations, src/unnamed/part_000
ToolCallback(d, acc, op) ==
    IF ToLowerCase(op.method) \notin validMethods THEN Skip(acc)
    ELSE IF op.parameters.defined /\ ~PathParamsInPath(op) THEN Skip(acc)
    ELSE IF OperationId(op) \in acc.seen THEN Skip(acc)
    ELSE Keep(d, acc, op, TRUE)

\* the same callback in src/src/mcp.ts: no path parameter check, no seen set
ToolCallbackMcpTs(d, acc, op) ==
    IF ToLowerCase(op.method) \notin validMethods THEN Skip(acc)
    ELSE Keep(d, acc, op, FALSE)

Callback(r, d, acc, op) ==
    IF r = "part_000" THEN ToolCallback(d, acc, op) ELSE ToolCallbackMcpTs(d, acc, op)

IsItem(x) == x # Null

\* what createTools returns once every operation went through the callback
ToolsResult(acc) ==
    [items |-> SelectSeq(acc.items, IsItem), map |-> acc.toolMap,
     contentTypes |-> acc.contentTypeMap]

RECURSIVE FoldOps(_, _, _, _)
FoldOps(r, d, acc, ops) ==
    IF ops = <<>> THEN acc ELSE FoldOps(r, d, Callback(r, d, acc, Head(ops)), Tail(ops))

createTools(r, d) == ToolsResult(FoldOps(r, d, EmptyAcc, d.ops))

Revisions == {"mcp_ts", "part_000"}

\* the documents the gateway is built from in the endpoint specifications
GatewayDocs ==
    { Document(<<Op(P_a, S_get, <<>>, NoParameters), Op(P_a, S_post, Id_op, NoParameters)>>),
      Document(<<Op(P_a_id, S_GET, Id_op, Parameters(<<Param(S_path, S_id, TRUE)>>))>>) }

\* The operations the parameter checks draw from: the getPet operation with
\* and without its operationId, one whose parameter schema has a description
\* of its own, and request bodies that are required or optional, JSON or
\* not, next to declared parameters or alone.
JsonBody(required) == RequestBody(required, << <<S_json, TypeSchema(S_object)>> >>)
CatalogOps ==
    { Op(P_pets_id, S_get, Id_getPet, Parameters(<<Param(S_path, S_id, TRUE)>>)),
      Op(P_pets_id, S_get, <<>>, Parameters(<<Param(S_path, S_id, TRUE)>>)),
      Op(P_a_id, S_get, <<>>,
         Parameters(<<ParamOf(S_path, S_id, TRUE, <<>>, Described(S_string, <<"s">>))>>)),
      OpWithBody(P_a, S_post, Id_op,
                 Parameters(<<ParamOf(S_query, S_id, FALSE, <<"d">>, TypeSchema(S_string))>>),
                 JsonBody(TRUE)),
      OpWithBody(P_a, S_put, <<>>, NoParameters, JsonBody(TRUE)),
      OpWithBody(P_a_b, S_post, <<>>, NoParameters, JsonBody(FALSE)),
      OpWithBody(P_a_b, S_put, Id_nope,
                 Parameters(<<Param(S_header, S_id, TRUE), Param(S_query, S_id, FALSE)>>),
                 RequestBody(TRUE, << <<S_text, TypeSchema(S_string)>> >>)) }

CatalogDocs ==
    {Document(ops) : ops \in {o \in SeqsUpTo(CatalogOps, MaxCatalogOps) : IterationOrder(o)}}

\* ------------------------------------------------------------- CallExecutor
\* What the upstream does with the one request executeApiCall sends: a 2xx
\* answer (the decoded output), a non-2xx answer (executeApiCall throws
\* "API call failed: <status> ..."), or fetch itself rejecting.
Answers ==
    { [ok |-> TRUE, output |-> "pets"],
      [ok |-> FALSE, message |-> "API call failed: 500 Internal Server Error"],
      [ok |-> FALSE, message |-> "fetch failed"] }

\* ------------------------------------------------------------- POST /sse
ParseErrorCode == -32700
MethodNotFoundCode == -32601
InvalidParamsCode == -32602
InternalErrorCode == -32603


\* the case labels of `switch (request.method)`
DispatchTable(r) ==
    IF r = "part_000"
    THEN {"initialize", "tools/list", "tools/call", "resources/list",
          "resources/templates/list", "prompts/list", "notifications/initialized", "ping"}
    ELSE {"initialize", "tools/list", "tools/call", "resources/list",
          "prompts/list", "notifications/initialized"}

\* request bodies: text that is no JSON, the JSON value null, or an object
\* {id?, method?, params?: {name?, arguments?}}
Methods == {"initialize", "tools/list", "tools/call", "resources/list",
            "resources/templates/list", "prompts/list", "notifications/initialized",
            "ping", "tools/run", "undefined"}
ToolNames == {Undefined, JsStr(<<>>), JsStr(Id_op), JsStr(Id_get_a), JsStr(Id_nope),
              JsStr(Id_toString), JsStr(Id_constructor)}
Ids == {Undefined, JsNum(1), JsNum(7)}

SseBodies ==
    {[parse |-> "fail"], [parse |-> "null"]}
    \cup {[parse |-> "object", id |-> i, method |-> m, name |-> Undefined] :
             i \in Ids, m \in Methods \ {"tools/call"}}
    \cup {[parse |-> "object", id |-> i, method |-> "tools/call", name |-> n] :
             i \in Ids, n \in ToolNames}

JsonRpcResult(id, result) == [http |-> 200, id |-> id, result |-> result, error |-> Absent]
JsonRpcError(http, id, code, message, data) ==
    [http |-> http, id |-> id, result |-> Absent,
     error |-> [code |-> code, message |-> message, data |-> data]]
NoContent == [http |-> 204, id |-> Absent, result |-> Absent, error |-> Absent]

\* the outer catch of the POST branch
ParseErrorReply == JsonRpcError(400, JsNull, ParseErrorCode, "Parse error", Absent)

\* default: of the switch, had it answered with the id of the outer catch
MethodNotFoundReplyNullId(req) ==
    JsonRpcError(404, JsNull, MethodNotFoundCode, "Method not found", Absent)

\* default: of the switch
MethodNotFoundReply(req) == JsonRpcError(404, req.id, MethodNotFoundCode, "Method not found", Absent)

\* `if (!toolName || !map[toolName])`, src/unnamed/part_000
ToolNotFoundReply(req) ==
    JsonRpcError(200, req.id, InvalidParamsCode, "Invalid params", "Tool not found")
\* the same branch in src/src/mcp.ts
ToolNotFoundReplyMcpTs(req) ==
    JsonRpcError(404, req.id, InvalidParamsCode, "Tool not found", Absent)

\* tools/call after executeApiCall returned, src/unnamed/part_000
CallSucceededReply(req, answer) ==
    JsonRpcResult(req.id, [content |-> answer.output, isError |-> JsBool(FALSE)])
\* the catch around executeApiCall, src/unnamed/part_000
CallFailedReply(req, answer) ==
    JsonRpcResult(req.id, [content |-> <<"Error calling tool: ", answer.message>>,
                           isError |-> JsBool(TRUE)])

\* the same two places in src/src/mcp.ts
CallSucceededReplyMcpTs(req, answer) ==
    JsonRpcResult(req.id, [content |-> answer.output, isError |-> Absent])
CallFailedReplyMcpTs(req, answer) ==
    JsonRpcError(500, req.id, InternalErrorCode, "Internal error", answer.message)

\* the same cases on an endpoint that keeps a session: nothing but
\* `initialize` is answered before an earlier request has been served
StaticReplyInSession(req) ==
    IF served = 0 /\ req.method # "initialize"
    THEN JsonRpcError(400, req.id, InternalErrorCode, "Server not initialized", Absent)
    ELSE IF req.method = "notifications/initialized" THEN NoContent
    ELSE JsonRpcResult(req.id, [kind |-> req.method])

\* the cases that answer without a call
StaticReply(req) ==
    IF req.method = "notifications/initialized" THEN NoContent
    ELSE JsonRpcResult(req.id, [kind |-> req.method])

IdleSse == [pc |-> "idle", req |-> Absent, reply |-> Absent, calls |-> 0, answer |-> Absent]

\* POST /sse up to its reply or to the await of executeApiCall
SsePost(body) ==
    /\ sse.pc = "idle"
    /\ served < MaxRequests
    /\ LET cat == createTools(rev, doc)
           found == Lookup(cat.map, body.name.v)
           replied(r) == [pc |-> "replied", req |-> body, reply |-> r, calls |-> 0,
                         answer |-> Absent]
       IN  sse' =
             IF body.parse # "object" THEN replied(ParseErrorReply)
             ELSE IF body.method \notin DispatchTable(rev) THEN replied(MethodNotFoundReply(body))
             ELSE IF body.method # "tools/call" THEN replied(StaticReply(body))
             ELSE IF ~Truthy(body.name) \/ ~Truthy(found)
                  THEN replied(IF rev = "part_000" THEN ToolNotFoundReply(body)
                               ELSE ToolNotFoundReplyMcpTs(body))
             ELSE IF found.t # "string" THEN replied(ParseErrorReply)
             ELSE [pc |-> "awaiting", req |-> body, reply |-> Absent, calls |-> 1,
                   answer |-> Absent]
    /\ UNCHANGED <<rev, doc, build, served, ws, codec, invoke, listing, refs, urlcall>>

\* executeApiCall returns or throws: the rest of the tools/call case
SseCallReturns(answer) ==
    /\ sse.pc = "awaiting"
    /\ sse' = [sse EXCEPT
                 !.pc = "replied",
                 !.answer = answer,
                 !.reply =
                    IF rev = "part_000"
                    THEN IF answer.ok THEN CallSucceededReply(sse.req, answer)
                         ELSE CallFailedReply(sse.req, answer)
                    ELSE IF answer.ok THEN CallSucceededReplyMcpTs(sse.req, answer)
                         ELSE CallFailedReplyMcpTs(sse.req, answer)]
    /\ UNCHANGED <<rev, doc, build, served, ws, codec, invoke, listing, refs, urlcall>>

\* the reply is delivered; the endpoint takes the next request
SseDone ==
    /\ sse.pc = "replied"
    /\ sse' = IdleSse
    /\ served' = served + 1
    /\ UNCHANGED <<rev, doc, build, ws, codec, invoke, listing, refs, urlcall>>

\* ------------------------------------------------------------- GET /stream/:id
K_model == <<"m","o","d","e","l">>
K_tool == <<"t","o","o","l">>
K_parameters == <<"p","a","r","a","m","e","t","e","r","s">>
S_cancel == <<"c","a","n","c","e","l">>
S_null == <<"n","u","l","l">>

\* the body of POST /stream and POST /invoke: {model?, tool?, parameters}
Invocation(model, tool, parameters) ==
    JsObj((IF model = Undefined THEN <<>> ELSE << <<K_model, model>> >>)
          \o (IF tool = Undefined THEN <<>> ELSE << <<K_tool, tool>> >>)
          \o << <<K_parameters, parameters>> >>)

\* `const taskId = btoa(JSON.stringify(invocationData))`
EncodeTaskId(inv) == btoa(Stringify(inv))

\* `atob(id)` then `JSON.parse(decoded)`, inside one try
DecodeTaskId(id) ==
    LET decoded == atob(id)
    IN  IF decoded.threw THEN Thrown ELSE JsonParse(decoded.value)

Progress(percent, status) == [event |-> "progress", percent |-> percent, status |-> status]
Complete(model, output) == [event |-> "complete", model |-> model, output |-> output]
ErrorEvent(message) == [event |-> "error", message |-> message]
Cancelled == [event |-> "cancelled", message |-> "Task cancelled by client"]

IsTerminal(e) == e.event \in {"complete", "error", "cancelled"}

\* the sends before the call: progress 0, then progress 30
OpeningEvents == <<Progress(0, "starting"), Progress(30, "fetching")>>

\* the .then callbacks, had the first one not sent its progress
ThenEventsNoProgress(model, answer) == <<Complete(model, answer.output)>>

\* the sends of the two .then callbacks
ThenEvents(model, answer) ==
    <<Progress(70, "processing"), Complete(model, answer.output)>>

\* the .catch callback, had it always taken the 'Unknown error' arm
CatchEventsUnknown(answer) == <<ErrorEvent("Unknown error")>>

\* the send of the .catch callback
CatchEvents(answer) == <<ErrorEvent(answer.message)>>

\* the task ids a client may open /stream/:id with: tokens of invocations
\* (known, unknown or missing model; known, unknown, inherited or missing
\* tool), of the JSON values null and "op", of text that is no JSON, and text
\* that is no base64
StreamModels ==
    {Undefined, JsStr(Id_nope)} \cup {JsStr(ModelId(Document(<<>>), u)) : u \in {U_one, U_two}}
StreamTools == {Undefined, JsStr(Id_op), JsStr(Id_nope), JsStr(Id_toString)}
StreamInvocations ==
    {Invocation(m, t, JsObj(<<>>)) : m \in StreamModels, t \in StreamTools}
TaskIds ==
    {EncodeTaskId(inv).value : inv \in StreamInvocations \cup {JsNull, JsStr(Id_op)}}
    \cup {btoa(<<"{","\"">>).value, <<"!","!">>, <<"e","y","J","p","Z">>}

NewWs == [pc |-> "connecting", id |-> Absent, model |-> Absent, tool |-> Absent,
          sent |-> <<>>, closed |-> FALSE, calls |-> 0, answer |-> Absent,
          received |-> 0, message |-> <<>>, late |-> <<>>]

\* onOpen, up to its return: the decode, the two validations, the first two
\* progress events and the call of executeApiCall.  An exception that leaves
\* onOpen (pc "threw") sends nothing more and closes nothing.
WsOpen(id) ==
    /\ ws.pc = "connecting"
    /\ LET invocationData == DecodeTaskId(id)
           model == Member(invocationData.value, K_model)
           tool == Member(invocationData.value, K_tool)
           server == \E i \in DOMAIN createModels(doc) : JsStr(createModels(doc)[i].id) = model
           found == Lookup(createTools(rev, doc).map, tool.v)
           refuse(message) ==
               [ws EXCEPT !.pc = "done", !.id = id, !.sent = <<ErrorEvent(message)>>,
                          !.closed = TRUE]
       IN  ws' =
             IF invocationData.threw THEN refuse("Invalid task ID format")
             ELSE IF invocationData.value = JsNull THEN [ws EXCEPT !.pc = "threw", !.id = id]
             ELSE IF ~server THEN refuse("Model not found")
             ELSE IF ~(tool.t = "string" /\ Truthy(tool) /\ Truthy(found))
                  THEN refuse("Tool not specified or not found")
             ELSE IF found.t # "string"
                  THEN [ws EXCEPT !.pc = "threw", !.id = id, !.model = model, !.tool = tool,
                                  !.sent = <<OpeningEvents[1]>>]
             ELSE [ws EXCEPT !.pc = "inflight", !.id = id, !.model = model, !.tool = tool,
                             !.sent = OpeningEvents, !.calls = 1]
    /\ UNCHANGED <<rev, doc, build, sse, served, codec, invoke, listing, refs, urlcall>>

\* the chain, had a closed socket still carried what is sent on it
WsCallReturnsOnAnySocket(answer, sendThrows) ==
    /\ ws.pc = "inflight"
    /\ ws' = IF answer.ok
             THEN [ws EXCEPT !.pc = "done", !.answer = answer, !.closed = TRUE,
                             !.sent = @ \o ThenEvents(ws.model, answer)]
             ELSE [ws EXCEPT !.pc = "done", !.answer = answer, !.closed = TRUE,
                             !.sent = @ \o CatchEvents(answer)]
    /\ UNCHANGED <<rev, doc, build, sse, served, codec, invoke, listing, refs, urlcall>>

\* executeApiCall settles: the .then/.then/.catch chain.  When a cancel has
\* closed the socket meanwhile, ws.send on it either throws (the chain ends in
\* the catch, whose own send throws too) or is dropped: `late` lists the
\* events the chain tried to send on the closed socket.
WsCallReturns(answer, sendThrows) ==
    /\ ws.pc = "inflight"
    /\ ws' =
         IF ~ws.closed
         THEN IF answer.ok
              THEN [ws EXCEPT !.pc = "done", !.answer = answer, !.closed = TRUE,
                              !.sent = @ \o ThenEvents(ws.model, answer)]
              ELSE [ws EXCEPT !.pc = "done", !.answer = answer, !.closed = TRUE,
                              !.sent = @ \o CatchEvents(answer)]
         ELSE [ws EXCEPT !.pc = "done", !.answer = answer,
                         !.late =
                            IF ~answer.ok THEN CatchEvents(answer)
                            ELSE IF sendThrows
                                 THEN <<ThenEvents(ws.model, answer)[1],
                                        ErrorEvent("send after close")>>
                                 ELSE ThenEvents(ws.model, answer)]
    /\ UNCHANGED <<rev, doc, build, sse, served, codec, invoke, listing, refs, urlcall>>

\* what clients send on the socket
ClientMessages ==
    { Stringify(JsObj(<< <<K_type, JsStr(S_cancel)>> >>)),
      Stringify(JsObj(<< <<K_type, JsStr(S_cancel)>>, <<K_tool, JsStr(Id_op)>> >>)),
      Stringify(JsObj(<< <<K_type, JsStr(S_null)>> >>)),
      Stringify(JsObj(<< <<K_tool, JsStr(S_cancel)>> >>)),
      Stringify(JsStr(S_cancel)),
      S_null,
      S_cancel }

\* onMessage, had it taken any message with a type for a cancel
IsCancelAnyType(data) ==
    LET message == JsonParse(data)
    IN  ~message.threw /\ message.value # JsNull /\ Member(message.value, K_type) # Undefined

\* `message.type === 'cancel'` after JSON.parse, inside the try of onMessage
IsCancel(data) ==
    LET message == JsonParse(data)
    IN  ~message.threw /\ message.value # JsNull /\ Member(message.value, K_type) = JsStr(S_cancel)

\* onMessage: the runtime delivers a client message while the socket is open
WsMessage(data) ==
    /\ ws.pc \in {"inflight", "threw"}
    /\ ~ws.closed
    /\ ws.received < MaxInbox
    /\ ws' = IF IsCancel(data)
             THEN [ws EXCEPT !.received = @ + 1, !.message = data,
                             !.sent = Append(@, Cancelled), !.closed = TRUE]
             ELSE [ws EXCEPT !.received = @ + 1, !.message = data]
    /\ UNCHANGED <<rev, doc, build, sse, served, codec, invoke, listing, refs, urlcall>>

\* ------------------------------------------------------------- POST /stream
MaxValueLen == 2     \* characters per parameter value

ValueChars == {"a", "\"", "\\", C_eacute, C_euro}
K_q == <<"q">>

\* the bodies POST /stream is given: {model?, tool?, parameters: {} | {q: <string>}}
StreamBodies ==
    {Invocation(m, t, ps) :
        m \in {Undefined, JsStr(Id_nope), JsStr(ModelId(Document(<<>>), U_one))},
        t \in {Undefined, JsStr(Id_op), JsStr(Id_nope)},
        ps \in {JsObj(<<>>)}
               \cup {JsObj(<< <<K_q, JsStr(v)>> >>) : v \in SeqsUpTo(ValueChars, MaxValueLen)}}

NewCodec == [pc |-> "start", body |-> Absent, reply |-> Absent, decoded |-> Absent]

\* POST /stream: the model and tool checks, then the task id.  btoa throwing
\* leaves the handler, which the framework answers with 500.
StreamPost(invocationData) ==
    /\ codec.pc = "start"
    /\ LET models == createModels(doc)
           given == Member(invocationData, K_model)
           model == IF Truthy(given) THEN given ELSE JsStr(models[1].id)
           tool == Member(invocationData, K_tool)
           server == \E i \in DOMAIN models : JsStr(models[i].id) = model
           taskId == EncodeTaskId(invocationData)
           reply ==
              IF ~server THEN [http |-> 404, error |-> "Model not found"]
              ELSE IF ~Truthy(tool) THEN [http |-> 400, error |-> "Tool not specified"]
              ELSE IF ~Truthy(Lookup(createTools(rev, doc).map, tool.v))
                   THEN [http |-> 404, error |-> "Tool not found"]
              ELSE IF taskId.threw THEN [http |-> 500, error |-> "Internal Server Error"]
              ELSE [http |-> 200, type |-> "stream_created", taskId |-> taskId.value]
       IN  codec' = [codec EXCEPT !.pc = "replied", !.body = invocationData, !.reply = reply]
    /\ UNCHANGED <<rev, doc, build, sse, served, ws, invoke, listing, refs, urlcall>>

\* the decode at the head of onOpen, applied to the task id POST /stream gave
StreamDecode ==
    /\ codec.pc = "replied"
    /\ codec.reply.http = 200
    /\ codec' = [codec EXCEPT !.pc = "decoded", !.decoded = DecodeTaskId(codec.reply.taskId)]
    /\ UNCHANGED <<rev, doc, build, sse, served, ws, invoke, listing, refs, urlcall>>

\* ------------------------------------------------------------- executeApiCall
HexDigits == <<"0","1","2","3","4","5","6","7","8","9","A","B","C","D","E","F">>
PercentEncoded(c) ==
    <<"%", HexDigits[(CodeOf(c) \div 16) + 1], HexDigits[(CodeOf(c) % 16) + 1]>>

\* encodeURIComponent on ASCII text
UriUnreserved == {"-", "_", ".", "!", "~", "*", "'", "(", ")"}
RECURSIVE encodeURIComponent(_)
encodeURIComponent(s) ==
    IF s = <<>> THEN <<>>
    ELSE (IF IsAlnumI(Head(s)) \/ Head(s) \in UriUnreserved THEN <<Head(s)>>
          ELSE PercentEncoded(Head(s)))
         \o encodeURIComponent(Tail(s))

\* the application/x-www-form-urlencoded serializer of URLSearchParams, on
\* ASCII text
FormUnreserved == {"*", "-", ".", "_"}
RECURSIVE FormEncode(_)
FormEncode(s) ==
    IF s = <<>> THEN <<>>
    ELSE (IF IsAlnumI(Head(s)) \/ Head(s) \in FormUnreserved THEN <<Head(s)>>
          ELSE IF Head(s) = " " THEN <<"+">>
          ELSE PercentEncoded(Head(s)))
         \o FormEncode(Tail(s))

\* String.prototype.indexOf, from 1, 0 if none
IndexOf(s, sub) ==
    IF Includes(s, sub)
    THEN 1 + CHOOSE i \in 0..(Len(s) - Len(sub)) :
                 /\ SubSeq(s, i + 1, i + Len(sub)) = sub
                 /\ \A j \in 0..(i - 1) : SubSeq(s, j + 1, j + Len(sub)) # sub
    ELSE 0

\* String.prototype.replace with a string pattern: the first occurrence only
ReplaceFirst(s, sub, rep) ==
    IF IndexOf(s, sub) = 0 THEN s
    ELSE SubSeq(s, 1, IndexOf(s, sub) - 1) \o rep
         \o SubSeq(s, IndexOf(s, sub) + Len(sub), Len(s))

\* String(value) for the values a JSON body holds
StringOf(v) ==
    IF v.t = "string" THEN v.v
    ELSE IF v.t = "boolean" THEN (IF v.v THEN <<"t","r","u","e">> ELSE <<"f","a","l","s","e">>)
    ELSE <<"[","o","b","j","e","c","t"," ","O","b","j","e","c","t","]">>

\* the entries of parametersCopy under one prefix, as <<name, String(value)>>
RECURSIVE Prefixed(_, _)
Prefixed(entries, prefix) ==
    IF entries = <<>> THEN <<>>
    ELSE (IF /\ Head(entries)[2] \notin {Undefined, JsNull}
             /\ StartsWith(Head(entries)[1], prefix)
             /\ Len(Head(entries)[1]) > Len(prefix)
          THEN << <<DropPrefix(Head(entries)[1], prefix), StringOf(Head(entries)[2])>> >>
          ELSE <<>>)
         \o Prefixed(Tail(entries), prefix)

NoInputs == [body |-> JsNull, queryParameters |-> <<>>, pathParameters |-> <<>>]

\* processParameters; the headers it collects are not part of the request
\* recorded here
processParameters(parameters) ==
    IF ~Truthy(parameters) \/ parameters.t # "object" THEN NoInputs
    ELSE [body |-> IF Truthy(Member(parameters, K_body)) THEN Member(parameters, K_body)
                   ELSE JsNull,
          queryParameters |-> Prefixed(parameters.fields, <<"q","u","e","r","y","-">>),
          pathParameters |-> Prefixed(parameters.fields, <<"p","a","t","h","-">>)]

\* the reduce over pathParameters.entries()
RECURSIVE SubstitutePath(_, _)
SubstitutePath(path, pathParameters) ==
    IF pathParameters = <<>> THEN path
    ELSE SubstitutePath(
             ReplaceFirst(ReplaceFirst(path, <<"{">> \o Head(pathParameters)[1] \o <<"}">>,
                                       encodeURIComponent(Head(pathParameters)[2])),
                          <<":">> \o Head(pathParameters)[1],
                          encodeURIComponent(Head(pathParameters)[2])),
             Tail(pathParameters))

\* queryParameters.toString()
RECURSIVE QueryString(_)
QueryString(queryParameters) ==
    IF queryParameters = <<>> THEN <<>>
    ELSE FormEncode(Head(queryParameters)[1]) \o <<"=">> \o FormEncode(Head(queryParameters)[2])
         \o (IF Len(queryParameters) > 1 THEN <<"&">> ELSE <<>>)
         \o QueryString(Tail(queryParameters))

StripSlash(host) ==
    IF host # <<>> /\ host[Len(host)] = "/" THEN SubSeq(host, 1, Len(host) - 1) ELSE host
LeadSlash(path) == IF path # <<>> /\ Head(path) = "/" THEN path ELSE <<"/">> \o path
WithQuery(baseUrl, queryString) ==
    IF queryString = <<>> THEN baseUrl ELSE baseUrl \o <<"?">> \o queryString

\* buildApiUrl
buildApiUrl(host, path, pathParameters, queryParameters) ==
    IF host = <<>> \/ path = <<>> THEN Thrown
    ELSE Returned(WithQuery(
             (IF StartsWith(host, <<"h","t","t","p">>) THEN <<>>
              ELSE <<"h","t","t","p","s",":","/","/">>)
             \o StripSlash(host) \o LeadSlash(SubstitutePath(path, pathParameters)),
             QueryString(queryParameters)))

\* ------------------------------------------------------------- buildApiUrl, step by step
H_https == <<"h","t","t","p","s",":","/","/","a",".","i","o">>
H_slash == <<"h","t","t","p","s",":","/","/","a",".","i","o","/">>
H_http == <<"h","t","t","p",":","/","/","a",".","i","o">>
H_bare == <<"a",".","i","o">>
H_bareSlash == <<"a",".","i","o","/">>
H_httpbin == <<"h","t","t","p","b","i","n",".","i","o">>
T_brace == <<"/","p","/","{","i","d","}">>
T_colon == <<"/","p","/",":","i","d">>
T_braceTwice == <<"/","{","i","d","}","/","{","i","d","}">>
T_colonTwice == <<"/",":","i","d","/",":","i","d">>
T_both == <<"/","{","i","d","}","/",":","i","d">>
T_other == <<"/","p","/","{","x","}","/",":","y">>
T_longer == <<"/","p","/",":","i","d","x">>
T_plain == <<"/","p">>
T_noSlash == <<"p","/","{","i","d","}">>
V_space == <<"a"," ","b">>
N_x == <<"x">>
W_7 == <<"7">>
W_slash == <<"a","/","b">>
UrlHosts == {<<>>, H_https, H_slash, H_http, H_bare, H_bareSlash, H_httpbin}
UrlPaths == {T_brace, T_colon, T_braceTwice, T_colonTwice, T_both, T_other, T_longer, T_plain, T_noSlash}
\* pathParameters as processParameters leaves them: <<name, String(value)>>
UrlPathParameters ==
    { <<>>, << <<S_id, W_7>> >>, << <<S_id, V_space>> >>,
      << <<S_id, W_7>>, <<N_x, W_slash>> >>, << <<N_x, W_7>> >> }
UrlQueryParameters == { <<>>, << <<K_q, W_7>> >>, << <<K_q, V_space>>, <<S_id, W_slash>> >> }

NewUrl == [pc |-> "start", host |-> <<>>, path |-> <<>>, pathParameters |-> <<>>,
           queryParameters |-> <<>>, processedPath |-> <<>>, result |-> <<>>]
IdleUrl == [NewUrl EXCEPT !.pc = "idle"]

\* the two guards and the reduce over pathParameters.entries()
UrlSubstitute ==
    /\ urlcall.pc = "start"
    /\ urlcall' =
          IF urlcall.host = <<>> \/ urlcall.path = <<>>
          THEN [urlcall EXCEPT !.pc = "threw"]
          ELSE [urlcall EXCEPT !.pc = "substituted",
                               !.processedPath = SubstitutePath(urlcall.path,
                                                                urlcall.pathParameters)]
    /\ UNCHANGED <<rev, doc, build, sse, served, ws, codec, invoke, listing, refs>>

\* baseUrl and the query string: the return value
UrlAssemble ==
    /\ urlcall.pc = "substituted"
    /\ urlcall' = [urlcall EXCEPT
                     !.pc = "built",
                     !.result = buildApiUrl(urlcall.host, urlcall.path, urlcall.pathParameters,
                                            urlcall.queryParameters).value]
    /\ UNCHANGED <<rev, doc, build, sse, served, ws, codec, invoke, listing, refs>>

\* the request fetch is given: method, URL and the body when there is one
FetchRequest(method, url, inputs) ==
    [method |-> method, url |-> url,
     body |-> IF Truthy(inputs.body) /\ ToUpperCase(method) \notin {S_GET, <<"H","E","A","D">>}
              THEN inputs.body ELSE Undefined]

Prepared(method, built, inputs) ==
    IF built.threw THEN Thrown ELSE Returned(FetchRequest(method, built.value, inputs))

BuiltUrl(host, path, inputs) ==
    buildApiUrl(host, path, inputs.pathParameters, inputs.queryParameters)

\* executeApiCall up to its fetch: Thrown when a guard throws before any
\* request, else the one request it sends
executeApiCall(host, method, path, parameters) ==
    IF host = <<>> \/ method = <<>> \/ path = <<>> THEN Thrown
    ELSE Prepared(method, BuiltUrl(host, path, processParameters(parameters)),
                  processParameters(parameters))

\* ------------------------------------------------------------- POST /invoke
NewInv == [pc |-> "start", body |-> Absent, reply |-> Absent, requests |-> <<>>,
           answer |-> Absent]

InvokeBody(model, tool, parameters) == [model |-> model, tool |-> tool, parameters |-> parameters]

InvokeFailure(http, error) ==
    [http |-> http, error |-> error, missing |-> <<>>, output |-> Absent]
MissingReply(missing) ==
    [http |-> 400, error |-> "Missing required parameters", missing |-> missing,
     output |-> Absent]
DataReply(output) == [http |-> 200, error |-> "", missing |-> <<>>, output |-> output]
\* a TypeError no try block of the handler encloses
Uncaught == InvokeFailure(500, "Internal Server Error")

\* invocationData.model || models.items[0]?.id
ChosenModel(body, items) ==
    IF Truthy(body.model) THEN body.model
    ELSE IF items = <<>> THEN Undefined ELSE JsStr(items[1].id)

\* models.items.find((m) => m.id === model)
ServerFound(model, items) == \E i \in DOMAIN items : JsStr(items[i].id) = model

\* tools.items.find((t) => t.id === tool)?.parameters?.required
RequiredOf(tool, items) ==
    IF \E i \in DOMAIN items : JsStr(items[i].id) = tool
    THEN Member(items[CHOOSE i \in DOMAIN items : JsStr(items[i].id) = tool].parameters,
                K_required)
    ELSE Undefined

\* the filter, had it reported no parameter as missing
MissingNone(required, parameters) == <<>>

\* the filter, had it stopped at the first missing parameter
RECURSIVE MissingFirst(_, _)
MissingFirst(required, parameters) ==
    IF required = <<>> THEN <<>>
    ELSE IF HasKey(parameters, Head(required).v) THEN MissingFirst(Tail(required), parameters)
    ELSE <<Head(required).v>>

\* required.filter((param) => !(param in parameters)), parameters an object
RECURSIVE Missing(_, _)
Missing(required, parameters) ==
    IF required = <<>> THEN <<>>
    ELSE (IF HasKey(parameters, Head(required).v) THEN <<>> ELSE <<Head(required).v>>)
         \o Missing(Tail(required), parameters)

\* const [method, path] = map[tool].split(' ')
MethodOf(entry) == Split(entry, " ")[1]
PathOf(entry) == IF Len(Split(entry, " ")) > 1 THEN Split(entry, " ")[2] ELSE <<>>

Awaiting(body, prepared) ==
    IF prepared.threw
    THEN [pc |-> "replied", body |-> body, reply |-> InvokeFailure(500, "API call failed"),
          requests |-> <<>>, answer |-> Absent]
    ELSE [pc |-> "awaiting", body |-> body, reply |-> Absent,
          requests |-> <<prepared.value>>, answer |-> Absent]

Refused(body, reply) ==
    [pc |-> "replied", body |-> body, reply |-> reply, requests |-> <<>>, answer |-> Absent]

\* the handler from the required-parameter check to the await
Validated(body, host, entry, required) ==
    IF required # Undefined /\ required.items # <<>> /\ ~CanHoldKeys(body.parameters)
    THEN Refused(body, Uncaught)
    ELSE IF required # Undefined /\ Missing(required.items, body.parameters) # <<>>
    THEN Refused(body, MissingReply(Missing(required.items, body.parameters)))
    ELSE IF entry.t # "string" THEN Refused(body, Uncaught)
    ELSE Awaiting(body, executeApiCall(host, MethodOf(entry.v), PathOf(entry.v),
                                       body.parameters))

\* the handler up to its reply or to the await of executeApiCall
Handled(body, host, models, cat) ==
    IF ~ServerFound(ChosenModel(body, models), models)
    THEN Refused(body, InvokeFailure(404, "Model not found"))
    ELSE IF ~Truthy(body.tool) THEN Refused(body, InvokeFailure(400, "Tool not specified"))
    ELSE IF ~Truthy(Lookup(cat.map, body.tool.v))
    THEN Refused(body, InvokeFailure(404, "Tool not found"))
    ELSE Validated(body, host, Lookup(cat.map, body.tool.v), RequiredOf(body.tool, cat.items))

\* the documents POST /invoke is checked on: the getPet operation on
\* https://api.example.com, and a server with a trailing slash whose
\* operations have a required JSON body, two required parameters, and none
U_api == <<"h","t","t","p","s",":","/","/","a","p","i",".","e","x","a","m","p","l","e",".","c","o","m">>
U_slash == <<"h","t","t","p","s",":","/","/","x","/">>
InvokeDocs ==
    { DocumentAt(<<U_api>>,
                 <<Op(P_pets_id, S_get, Id_getPet, Parameters(<<Param(S_path, S_id, TRUE)>>))>>),
      DocumentAt(<<U_slash, U_two>>,
                 <<Op(P_a, S_get, <<>>, NoParameters),
                   OpWithBody(P_a, S_post, Id_op, NoParameters, JsonBody(TRUE)),
                   Op(P_a_id, S_put, Id_nope,
                      Parameters(<<Param(S_header, S_id, TRUE), Param(S_path, S_id, TRUE),
                                   Param(S_query, S_id, FALSE)>>))>>) }

V_7 == JsStr(<<"7">>)
V_ab == JsStr(<<"a"," ","/","b">>)
InvokeParameters ==
    { Undefined, JsNull, JsStr(<<"x">>), JsObj(<<>>),
      JsObj(<< <<S_path \o <<"-">> \o S_id, V_7>> >>),
      JsObj(<< <<S_path \o <<"-">> \o S_id, V_ab>>, <<S_header \o <<"-">> \o S_id, V_7>> >>),
      JsObj(<< <<S_query \o <<"-">> \o S_id, V_ab>>, <<S_path \o <<"-">> \o S_id, JsNull>>,
               <<S_header \o <<"-">> \o S_id, V_7>> >>),
      JsObj(<< <<S_header \o <<"-">> \o S_id, V_7>> >>),
      JsObj(<< <<K_body, JsObj(<< <<S_id, V_7>> >>)>> >>),
      JsObj(<< <<K_body, JsNull>>, <<S_query \o <<"-">> \o S_id, V_7>> >>) }

InvokeTools ==
    {Undefined, JsStr(<<>>), JsStr(Id_getPet), JsStr(Id_op), JsStr(Id_nope), JsStr(Id_get_a),
     JsStr(Id_toString)}

InvokeModels ==
    {Undefined, JsStr(Id_nope)}
    \cup {JsStr(ModelId(Document(<<>>), u)) : u \in {U_api, U_slash, U_two}}

\* the bodies POST /invoke is given
InvokeBodies ==
    {InvokeBody(m, t, ps) : m \in InvokeModels, t \in InvokeTools, ps \in InvokeParameters}

\* POST /invoke
InvokePost(body) ==
    /\ invoke.pc = "start"
    /\ invoke' = Handled(body, doc.servers[1], createModels(doc), createTools(rev, doc))
    /\ UNCHANGED <<rev, doc, build, sse, served, ws, codec, listing, refs, urlcall>>

\* executeApiCall returns or throws: the rest of the try block
InvokeCallReturns(answer) ==
    /\ invoke.pc = "awaiting"
    /\ invoke' = [invoke EXCEPT
                    !.pc = "replied",
                    !.answer = answer,
                    !.reply = IF answer.ok THEN DataReply(answer.output)
                              ELSE InvokeFailure(500, "API call failed")]
    /\ UNCHANGED <<rev, doc, build, sse, served, ws, codec, listing, refs, urlcall>>

\* ------------------------------------------------------------- createModels, run by run
MaxTitleLen == 3     \* characters per generated title
MaxServers == 2      \* servers per document
MaxRuns == 2         \* createModels runs on one document

TitleChars == {"M", "y", " ", "!", "2", "_"}
T_accent == <<"C", "a", "f", C_eacute, " ", "A", "P", "I">>
T_spaced == <<" ", "P", "e", "t", " ", "-", " ", "S", "t", "o", "r", "e", " ", "v", "2", " ">>

\* info.title is a non-empty string (isValidOpenAPI); servers is non-empty
Titles == (SeqsUpTo(TitleChars, MaxTitleLen) \ {<<>>}) \cup {T_title, T_accent, T_spaced}
ServerLists == SeqsUpTo({U_one, U_two}, MaxServers) \ {<<>>}
ModelDocs == {[title |-> t, servers |-> u, ops |-> <<>>] : t \in Titles, u \in ServerLists}

NewModels == [pc |-> "start", runs |-> 0, first |-> <<>>, last |-> <<>>]

\* one run of createModels on the document
ModelsRun ==
    /\ listing.pc \in {"start", "listed"}
    /\ listing.runs < MaxRuns
    /\ listing' = [pc |-> "listed", runs |-> listing.runs + 1,
                   first |-> IF listing.runs = 0 THEN createModels(doc) ELSE listing.first,
                   last |-> createModels(doc)]
    /\ UNCHANGED <<rev, doc, build, sse, served, ws, codec, invoke, refs, urlcall>>

\* ------------------------------------------------------------- findSchema, call by call
N_Pet == <<"P","e","t">>
N_Owner == <<"O","w","n","e","r">>
N_Shelter == <<"S","h","e","l","t","e","r">>
N_Zoo == <<"Z","o","o">>
N_Addr == <<"A","d","d","r">>
N_Alias == <<"A","l","i","a","s">>
N_Loop == <<"L","o","o","p">>
N_Nope == <<"N","o","p","e">>
N_Link == <<"L","i","n","k">>
N_Far == <<"F","a","r">>
N_Ping == <<"P","i","n","g">>
N_Pong == <<"P","o","n","g">>

PetSchema ==
    JsObj(<< <<K_type, JsStr(S_object)>>,
             <<K_properties, JsObj(<< <<<<"n">>, TypeSchema(S_string)>>,
                                      <<<<"o">>, ComponentRef(N_Owner)>> >>)>> >>)
ShelterSchema ==
    JsObj(<< <<K_type, JsStr(S_object)>>,
             <<K_defs, JsObj(<< <<N_Addr, Described(S_string, <<"s">>)>>,
                                <<N_Alias, DefsRef(N_Addr)>>,
                                <<N_Loop, DefsRef(N_Loop)>>,
                                <<N_Far, DefsRef(N_Alias)>>,
                                <<N_Ping, DefsRef(N_Pong)>>,
                                <<N_Pong, DefsRef(N_Ping)>> >>)>> >>)
ZooSchema ==
    JsObj(<< <<K_type, JsStr(S_object)>>,
             <<K_defs, JsObj(<< <<N_Addr, Described(S_string, <<"z">>)>> >>)>> >>)

\* openapi.components?.schemas and openapi.$defs of the documents resolved against
SchemaDocs ==
    { [title |-> T_title, servers |-> <<U_one>>, ops |-> <<>>, schemas |-> sc, defs |-> df] :
        sc \in { Undefined, JsObj(<<>>),
                 JsObj(<< <<N_Pet, PetSchema>>, <<N_Owner, TypeSchema(S_string)>> >>),
                 JsObj(<< <<N_Pet, PetSchema>>, <<N_Owner, Described(S_string, <<"o">>)>>,
                          <<N_Shelter, ShelterSchema>>, <<N_Zoo, ZooSchema>> >>),
                 JsObj(<< <<N_Link, ComponentRef(N_Owner)>>,
                          <<N_Owner, Described(S_string, <<"o">>)>>,
                          <<N_Shelter, ShelterSchema>> >>) },
        df \in { Undefined, JsObj(<< <<N_Addr, Described(S_string, <<"r">>)>> >>) } }

\* the schemas findSchema is called with
SchemaInputs ==
    { ComponentRef(N_Pet), ComponentRef(N_Owner), ComponentRef(N_Shelter),
      ComponentRef(N_Nope), ComponentRef(Id_toString), ComponentRef(N_Link),
      ExactDefsRef(N_Shelter, N_Addr), ExactDefsRef(N_Shelter, N_Nope),
      ExactDefsRef(N_Nope, N_Addr),
      DefsRef(N_Addr), DefsRef(N_Alias), DefsRef(N_Loop), DefsRef(N_Nope),
      Ref(<<"#","/","d","e","f","i","n","i","t","i","o","n","s","/">> \o N_Pet),
      Ref(<<"p","e","t",".","j","s","o","n">>),
      JsObj(<< <<K_ref, JsStr(DefsPrefix \o N_Addr)>>,
               <<K_defs, JsObj(<< <<N_Addr, Described(S_string, <<"l">>)>> >>)>> >>),
      TypeSchema(S_string),
      PetSchema,
      JsObj(<< <<K_type, JsStr(S_object)>>,
               <<K_properties, JsObj(<< <<<<"o">>, ComponentRef(N_Owner)>>,
                                        <<<<"x">>, ComponentRef(N_Nope)>> >>)>> >>),
      JsObj(<< <<K_type, JsStr(S_array)>>, <<K_items, ComponentRef(N_Owner)>> >>),
      JsObj(<< <<K_type, JsStr(S_array)>>, <<K_items, ComponentRef(N_Nope)>> >>),
      JsObj(<< <<K_type, JsStr(S_array)>>, <<K_items, DefsRef(N_Addr)>> >>),
      JsObj(<< <<K_type, JsStr(S_array)>>, <<K_items, DefsRef(N_Nope)>> >>),
      JsObj(<< <<K_type, JsStr(S_array)>>,
               <<K_items, Ref(<<"p","e","t",".","j","s","o","n">>)>> >>) }

NewRes == [pc |-> "start", tr |-> "types_ts", schema |-> Absent, first |-> Absent,
           second |-> Absent, cur |-> Absent, ctx |-> Absent, depth |-> 0]

\* findSchema(openapi, schema)
FindSchemaCall(schema) ==
    /\ refs.pc = "start"
    /\ refs' = [refs EXCEPT !.pc = "called", !.schema = schema,
                            !.first = findSchema(refs.tr, doc, schema)]
    /\ UNCHANGED <<rev, doc, build, sse, served, ws, codec, invoke, listing, urlcall>>

\* the same call once more
FindSchemaAgain ==
    /\ refs.pc = "called"
    /\ refs' = [refs EXCEPT !.pc = "repeated",
                            !.second = findSchema(refs.tr, doc, refs.schema)]
    /\ UNCHANGED <<rev, doc, build, sse, served, ws, codec, invoke, listing, urlcall>>

\* ------------------------------------------------------------- findSchema on a reference, call by call
\* the references findSchema is entered with
ReferenceInputs ==
    { DefsRef(N_Addr), DefsRef(N_Alias), DefsRef(N_Far), DefsRef(N_Loop), DefsRef(N_Ping),
      DefsRef(N_Nope), ExactDefsRef(N_Shelter, N_Pong), ExactDefsRef(N_Shelter, N_Addr),
      ComponentRef(N_Link),
      JsObj(<< <<K_ref, JsStr(DefsPrefix \o N_Addr)>>,
               <<K_defs, JsObj(<< <<N_Addr, Described(S_string, <<"l">>)>> >>)>> >>) }

\* the reference goes to resolveDefsReference, not to the direct form
IsDefsCall(cur) ==
    /\ Prop(cur, K_ref).t = "string"
    /\ ~(StartsWith(Prop(cur, K_ref).v, ComponentsPrefix)
          /\ ~Includes(Prop(cur, K_ref).v, DefsSegment))

DefsResultOf(cur, ctx) == resolveDefsReference(doc, Prop(cur, K_ref).v, ctx)

\* `if (defsResult.$ref)`, had it stopped at a definition that refers to itself
RecursesUnlessSelf(cur, defsResult) ==
    /\ IsDefsCall(cur)
    /\ ~defsResult.threw
    /\ Truthy(defsResult.value)
    /\ Truthy(Prop(defsResult.value, K_ref))
    /\ Prop(defsResult.value, K_ref) # Prop(cur, K_ref)

\* `if (defsResult) { if (defsResult.$ref) return findSchema(...) }`
Recurses(cur, defsResult) ==
    /\ IsDefsCall(cur)
    /\ ~defsResult.threw
    /\ Truthy(defsResult.value)
    /\ Truthy(Prop(defsResult.value, K_ref))

\* what the innermost call returns or throws when it makes no further call
InnermostResult(tr, cur, ctx, defsResult) ==
    IF ~IsDefsCall(cur) THEN FindRef(tr, MaxRefDepth, doc, Prop(cur, K_ref), ctx)
    ELSE IF defsResult.threw THEN Thrown
    ELSE IF ~Truthy(defsResult.value) THEN Thrown
    ELSE Returned(defsResult.value)

\* findSchema(openapi, schema) is entered
ResolveEnter(schema) ==
    /\ refs.pc = "enter"
    /\ refs' = [refs EXCEPT !.pc = "resolving", !.schema = schema, !.cur = schema,
                            !.ctx = ContextOf(Undefined, schema), !.depth = 0]
    /\ UNCHANGED <<rev, doc, build, sse, served, ws, codec, invoke, listing, urlcall>>

\* `return findSchema(openapi, defsResult, contextSchema)`: one more frame
ResolveRecurse ==
    /\ refs.pc = "resolving"
    /\ refs.depth < MaxRefDepth
    /\ \E defsResult \in {DefsResultOf(refs.cur, refs.ctx)} :
          /\ Recurses(refs.cur, defsResult)
          /\ refs' = [refs EXCEPT !.cur = defsResult.value,
                                  !.ctx = ContextOf(refs.ctx, defsResult.value),
                                  !.depth = @ + 1]
    /\ UNCHANGED <<rev, doc, build, sse, served, ws, codec, invoke, listing, urlcall>>

\* the same call with the stack exhausted: RangeError
ResolveOverflow ==
    /\ refs.pc = "resolving"
    /\ refs.depth = MaxRefDepth
    /\ \E defsResult \in {DefsResultOf(refs.cur, refs.ctx)} :
          Recurses(refs.cur, defsResult)
    /\ refs' = [refs EXCEPT !.pc = "overflow", !.first = Thrown]
    /\ UNCHANGED <<rev, doc, build, sse, served, ws, codec, invoke, listing, urlcall>>

\* the innermost call returns or throws, and every frame above it with it
ResolveReturn ==
    /\ refs.pc = "resolving"
    /\ \E defsResult \in {DefsResultOf(refs.cur, refs.ctx)} :
          /\ ~Recurses(refs.cur, defsResult)
          /\ \E result \in {InnermostResult(refs.tr, refs.cur, refs.ctx, defsResult)} :
                refs' = [refs EXCEPT !.pc = IF result.threw THEN "threw" ELSE "returned",
                                     !.first = result]
    /\ UNCHANGED <<rev, doc, build, sse, served, ws, codec, invoke, listing, urlcall>>

\* ------------------------------------------------------------- createTools, step by step
NewBuild(d) == [pc |-> "mapping", rest |-> d.ops, acc |-> EmptyAcc, result |-> Absent]

\* one call of the callback, on the next operation in iteration order
BuildCallback ==
    /\ build.pc = "mapping"
    /\ build.rest # <<>>
    /\ build' = [build EXCEPT !.acc = Callback(rev, doc, @, Head(build.rest)),
                              !.rest = Tail(@)]
    /\ UNCHANGED <<rev, doc, sse, served, ws, codec, invoke, listing, refs, urlcall>>

\* the return statement of createTools
BuildReturn ==
    /\ build.pc = "mapping"
    /\ build.rest = <<>>
    /\ build' = [build EXCEPT !.pc = "built", !.result = ToolsResult(build.acc)]
    /\ UNCHANGED <<rev, doc, sse, served, ws, codec, invoke, listing, refs, urlcall>>

IdleBuild == [pc |-> "idle", rest |-> <<>>, acc |-> EmptyAcc, result |-> Absent]
IdleWs == [NewWs EXCEPT !.pc = "idle"]
IdleCodec == [NewCodec EXCEPT !.pc = "idle"]
IdleInv == [NewInv EXCEPT !.pc = "idle"]
IdleModels == [NewModels EXCEPT !.pc = "idle"]
IdleRes == [NewRes EXCEPT !.pc = "idle"]

Init ==
    /\ rev \in Revisions
    /\ doc \in GatewayDocs
    /\ build = IdleBuild
    /\ sse = IdleSse
    /\ served = 0
    /\ ws = IdleWs
    /\ codec = IdleCodec
    /\ invoke = IdleInv
    /\ listing = IdleModels
    /\ refs = IdleRes
    /\ urlcall = IdleUrl

Next ==
    \/ \E body \in SseBodies : SsePost(body)
    \/ \E answer \in Answers : SseCallReturns(answer)
    \/ SseDone

Spec == Init /\ [][Next]_vars

InitStream ==
    /\ rev \in Revisions
    /\ doc \in GatewayDocs
    /\ build = IdleBuild
    /\ sse = IdleSse
    /\ served = 0
    /\ ws = NewWs
    /\ codec = IdleCodec
    /\ invoke = IdleInv
    /\ listing = IdleModels
    /\ refs = IdleRes
    /\ urlcall = IdleUrl

NextStream ==
    \/ \E id \in TaskIds : WsOpen(id)
    \/ \E answer \in Answers, sendThrows \in BOOLEAN : WsCallReturns(answer, sendThrows)
    \/ \E data \in ClientMessages : WsMessage(data)

SpecStream == InitStream /\ [][NextStream]_vars

InitToken ==
    /\ rev \in Revisions
    /\ doc \in GatewayDocs
    /\ build = IdleBuild
    /\ sse = IdleSse
    /\ served = 0
    /\ ws = IdleWs
    /\ codec = NewCodec
    /\ invoke = IdleInv
    /\ listing = IdleModels
    /\ refs = IdleRes
    /\ urlcall = IdleUrl

NextToken ==
    \/ \E body \in StreamBodies : StreamPost(body)
    \/ StreamDecode

SpecToken == InitToken /\ [][NextToken]_vars

InitTools ==
    /\ rev \in Revisions
    /\ doc \in Documents
    /\ build = NewBuild(doc)
    /\ sse = IdleSse
    /\ served = 0
    /\ ws = IdleWs
    /\ codec = IdleCodec
    /\ invoke = IdleInv
    /\ listing = IdleModels
    /\ refs = IdleRes
    /\ urlcall = IdleUrl

NextTools == BuildCallback \/ BuildReturn

SpecTools == InitTools /\ [][NextTools]_vars

InitCatalog ==
    /\ rev \in Revisions
    /\ doc \in CatalogDocs
    /\ build = NewBuild(doc)
    /\ sse = IdleSse
    /\ served = 0
    /\ ws = IdleWs
    /\ codec = IdleCodec
    /\ invoke = IdleInv
    /\ listing = IdleModels
    /\ refs = IdleRes
    /\ urlcall = IdleUrl

NextCatalog == BuildCallback \/ BuildReturn

SpecCatalog == InitCatalog /\ [][NextCatalog]_vars

InitInvoke ==
    /\ rev = "part_000"
    /\ doc \in InvokeDocs
    /\ build = IdleBuild
    /\ sse = IdleSse
    /\ served = 0
    /\ ws = IdleWs
    /\ codec = IdleCodec
    /\ invoke = NewInv
    /\ listing = IdleModels
    /\ refs = IdleRes
    /\ urlcall = IdleUrl

NextInvoke ==
    \/ \E body \in InvokeBodies : InvokePost(body)
    \/ \E answer \in Answers : InvokeCallReturns(answer)

SpecInvoke == InitInvoke /\ [][NextInvoke]_vars

\* the three endpoints that invoke executeApiCall, one of them in use
InitCalls ==
    /\ doc \in GatewayDocs \cup InvokeDocs
    /\ build = IdleBuild
    /\ codec = IdleCodec
    /\ listing = IdleModels
    /\ refs = IdleRes
    /\ urlcall = IdleUrl
    /\ \/ rev \in Revisions /\ sse = IdleSse /\ served = 0 /\ ws = IdleWs /\ invoke = IdleInv
       \/ rev \in Revisions /\ sse = IdleSse /\ served = MaxRequests /\ ws = NewWs
            /\ invoke = IdleInv
       \/ rev = "part_000" /\ sse = IdleSse /\ served = MaxRequests /\ ws = IdleWs
            /\ invoke = NewInv

NextCalls == Next \/ NextStream \/ NextInvoke

SpecCalls == InitCalls /\ [][NextCalls]_vars

InitModels ==
    /\ rev \in Revisions
    /\ doc \in ModelDocs
    /\ build = IdleBuild
    /\ sse = IdleSse
    /\ served = 0
    /\ ws = IdleWs
    /\ codec = IdleCodec
    /\ invoke = IdleInv
    /\ listing = NewModels
    /\ refs = IdleRes
    /\ urlcall = IdleUrl

NextModels == ModelsRun

SpecModels == InitModels /\ [][NextModels]_vars

InitSchema ==
    /\ rev = "part_000"
    /\ doc \in SchemaDocs
    /\ build = IdleBuild
    /\ sse = IdleSse
    /\ served = 0
    /\ ws = IdleWs
    /\ codec = IdleCodec
    /\ invoke = IdleInv
    /\ listing = IdleModels
    /\ refs \in {[NewRes EXCEPT !.tr = tr] : tr \in TypesRevisions}
    /\ urlcall = IdleUrl

NextSchema ==
    \/ \E schema \in SchemaInputs : FindSchemaCall(schema)
    \/ FindSchemaAgain

SpecSchema == InitSchema /\ [][NextSchema]_vars

InitUrl ==
    /\ rev = "part_000"
    /\ doc = Document(<<>>)
    /\ build = IdleBuild
    /\ sse = IdleSse
    /\ served = 0
    /\ ws = IdleWs
    /\ codec = IdleCodec
    /\ invoke = IdleInv
    /\ listing = IdleModels
    /\ refs = IdleRes
    /\ urlcall \in {[NewUrl EXCEPT !.host = h, !.path = p, !.pathParameters = pp,
                                   !.queryParameters = qp] :
                        h \in UrlHosts, p \in UrlPaths, pp \in UrlPathParameters,
                        qp \in UrlQueryParameters}

NextUrl == UrlSubstitute \/ UrlAssemble

SpecUrl == InitUrl /\ [][NextUrl]_vars

InitResolve ==
    /\ rev = "part_000"
    /\ doc \in SchemaDocs
    /\ build = IdleBuild
    /\ sse = IdleSse
    /\ served = 0
    /\ ws = IdleWs
    /\ codec = IdleCodec
    /\ invoke = IdleInv
    /\ listing = IdleModels
    /\ refs \in {[NewRes EXCEPT !.pc = "enter", !.tr = tr] : tr \in TypesRevisions}
    /\ urlcall = IdleUrl

NextResolve ==
    \/ \E schema \in ReferenceInputs : ResolveEnter(schema)
    \/ ResolveRecurse
    \/ ResolveOverflow
    \/ ResolveReturn

\* the calls are synchronous: a call that can proceed does
SpecResolve == InitResolve /\ [][NextResolve]_vars /\ WF_vars(NextResolve)

\* the documents of the catalog and map checks: those of Documents, and
\* those with an operation whose path has a space in it
P_a_sp_b == <<"/","a"," ","b">>
MapPool == OpPool \cup {Op(P_a_sp_b, S_get, <<>>, NoParameters)}
MapDocs == {Document(ops) : ops \in {o \in SeqsUpTo(MapPool, MaxOps) : IterationOrder(o)}}

InitMaps ==
    /\ rev = "part_000"
    /\ doc \in MapDocs
    /\ build = NewBuild(doc)
    /\ sse = IdleSse
    /\ served = 0
    /\ ws = IdleWs
    /\ codec = IdleCodec
    /\ invoke = IdleInv
    /\ listing = IdleModels
    /\ refs = IdleRes
    /\ urlcall = IdleUrl

NextMaps == BuildCallback \/ BuildReturn

SpecMaps == InitMaps /\ [][NextMaps]_vars

\* the client opens `/stream/${taskId}`, the streamUrl POST /stream replied
StreamOpen ==
    /\ codec.pc = "replied"
    /\ codec.reply.http = 200
    /\ WsOpen(codec.reply.taskId)

InitSession ==
    /\ rev \in Revisions
    /\ doc \in GatewayDocs
    /\ build = IdleBuild
    /\ sse = IdleSse
    /\ served = 0
    /\ ws = NewWs
    /\ codec = NewCodec
    /\ invoke = IdleInv
    /\ listing = IdleModels
    /\ refs = IdleRes
    /\ urlcall = IdleUrl

NextSession ==
    \/ \E body \in StreamBodies : StreamPost(body)
    \/ StreamOpen
    \/ \E answer \in Answers, sendThrows \in BOOLEAN : WsCallReturns(answer, sendThrows)
    \/ \E data \in ClientMessages : WsMessage(data)

SpecSession == InitSession /\ [][NextSession]_vars

\* ------------------------------------------------------------- claims on POST /sse
SseCatalog == createTools(rev, doc)
IsToolId(name) == \E i \in DOMAIN SseCatalog.items : JsStr(SseCatalog.items[i].id) = name
SseToolsCall == sse.pc = "replied" /\ sse.req.parse = "object" /\ sse.req.method = "tools/call"

\* C1: a tools/call for a tool of ToolInvocationMap whose executeApiCall call
\* failed is answered with `result` (isError true, the error message as its
\* text) and no `error` member; one whose call succeeded with isError false.
C1_ToolFailureIsResult ==
    (SseToolsCall /\ sse.answer # Absent) =>
        /\ sse.reply.error = Absent
        /\ sse.reply.result # Absent
        /\ sse.answer.ok => sse.reply.result.isError = JsBool(FALSE)
        /\ ~sse.answer.ok =>
              /\ sse.reply.result.isError = JsBool(TRUE)
              /\ sse.reply.result.content = <<"Error calling tool: ", sse.answer.message>>

\* C2: a tools/call whose name is not the id of a tool of the catalog (any
\* string, or no name) is answered with error -32602 "Invalid params" and the
\* request's id, and no call was made.
C2_UnknownToolInvalidParams ==
    (SseToolsCall /\ ~IsToolId(sse.req.name)) =>
        /\ sse.reply.error # Absent
        /\ sse.reply.error.code = InvalidParamsCode
        /\ sse.reply.error.message = "Invalid params"
        /\ sse.reply.id = sse.req.id
        /\ sse.calls = 0

\* the methods the endpoint documents (GET /sse, `methods`)
DocumentedMethods == DispatchTable("part_000")

\* C3: a request object whose method is not in the dispatch table is answered
\* with error -32601 "Method not found" and the request's id; a body that is
\* not JSON with error -32700 "Parse error" and id null; neither makes a call.
C3_MethodNotFoundAndParseError ==
    /\ (sse.pc = "replied" /\ sse.req.parse = "object"
          /\ sse.req.method \notin DocumentedMethods) =>
            /\ sse.reply.error # Absent
            /\ sse.reply.error.code = MethodNotFoundCode
            /\ sse.reply.error.message = "Method not found"
            /\ sse.reply.result = Absent
            /\ sse.reply.id = sse.req.id
            /\ sse.calls = 0
    /\ (sse.pc = "replied" /\ sse.req.parse = "fail") =>
            /\ sse.reply.error # Absent
            /\ sse.reply.error.code = ParseErrorCode
            /\ sse.reply.error.message = "Parse error"
            /\ sse.reply.result = Absent
            /\ sse.reply.id = JsNull
            /\ sse.calls = 0
    /\ (sse.pc = "awaiting") =>
            sse.req.parse = "object" /\ sse.req.method \in DocumentedMethods

\* an unknown method with an id was answered, after a body that was no JSON
C3_Witness ==
    /\ sse.pc = "replied" /\ served = 1
    /\ sse.req.parse = "object" /\ sse.req.method = "tools/run" /\ sse.req.id = JsNum(7)
    /\ sse.reply.error.code = MethodNotFoundCode

\* ------------------------------------------------------------- claims on the stream session
Sent(kind) == \E i \in DOMAIN ws.sent : ws.sent[i].event = kind
SentProgress(percent) ==
    \E i \in DOMAIN ws.sent : ws.sent[i].event = "progress" /\ ws.sent[i].percent = percent
CallSucceeded == ws.pc = "done" /\ ws.answer # Absent /\ ws.answer.ok
CallFailed == ws.pc = "done" /\ ws.answer # Absent /\ ~ws.answer.ok
ScriptedEvents ==
    <<Progress(0, "starting"), Progress(30, "fetching"), Progress(70, "processing"),
      Complete(ws.model, ws.answer.output)>>

\* C4 as stated: in a session that validates and whose call succeeds, the
\* events sent are exactly progress 0, progress 30, progress 70, complete,
\* then the socket is closed; progress 70 is not sent before the call returned.
C4_ScriptedOrder ==
    /\ CallSucceeded => (ws.sent = ScriptedEvents /\ ws.closed)
    /\ SentProgress(70) => ws.answer # Absent

\* C4 amended: the same for a session in which no cancel closed the socket
\* before the call returned; before the call returns only progress 0 and
\* progress 30 (and a cancelled) have been sent.
C4_ScriptedOrderUnlessCancelled ==
    /\ (CallSucceeded /\ ~Sent("cancelled")) => (ws.sent = ScriptedEvents /\ ws.closed)
    /\ (CallSucceeded /\ Sent("cancelled")) => ws.sent = <<ScriptedEvents[1], ScriptedEvents[2], Cancelled>>
    /\ SentProgress(70) => (ws.answer # Absent /\ ws.answer.ok)
    /\ ws.pc = "inflight" =>
          ws.sent \in {<<Progress(0, "starting"), Progress(30, "fetching")>>,
                       <<Progress(0, "starting"), Progress(30, "fetching"), Cancelled>>}

\* the call succeeded and the four events were sent, with a client message
\* (no cancel) received while the call was in flight
C4_Witness ==
    /\ CallSucceeded /\ ws.received = 1 /\ ws.closed
    /\ ws.sent = ScriptedEvents

\* C5 as stated: when the call fails an error event with the failure message
\* is sent and the socket closed, and neither complete nor progress 70 is sent.
C5_FailureSendsError ==
    CallFailed =>
        /\ ws.sent[Len(ws.sent)] = ErrorEvent(ws.answer.message)
        /\ ws.closed
        /\ ~Sent("complete") /\ ~SentProgress(70)

\* C5 amended: the error event is sent unless a cancel closed the socket before
\* the call failed; then cancelled stays the last event.
C5_FailureSendsErrorUnlessCancelled ==
    CallFailed =>
        /\ ws.closed
        /\ ~Sent("complete") /\ ~SentProgress(70)
        /\ ~Sent("cancelled") =>
              ws.sent = <<Progress(0, "starting"), Progress(30, "fetching"),
                          ErrorEvent(ws.answer.message)>>
        /\ Sent("cancelled") => ws.sent[Len(ws.sent)] = Cancelled /\ ~Sent("error")

\* the call failed with the upstream's 500 and the error event was sent
C5_Witness ==
    /\ CallFailed /\ ws.closed
    /\ ws.answer.message = "API call failed: 500 Internal Server Error"
    /\ ws.sent[3] = ErrorEvent("API call failed: 500 Internal Server Error")

\* the client messages that are JSON objects with type "cancel"
CancelMessages ==
    { <<"{","\"","t","y","p","e","\"",":","\"","c","a","n","c","e","l","\"","}">>,
      <<"{","\"","t","y","p","e","\"",":","\"","c","a","n","c","e","l","\"",",",
        "\"","t","o","o","l","\"",":","\"","o","p","\"","}">> }

\* C6: a client message that is JSON with type "cancel" makes the session send
\* cancelled and close the socket; any other message sends nothing and
\* changes nothing of the session.
C6_CancelOnly ==
    [][ ws'.received = ws.received + 1 =>
          IF ws'.message \in CancelMessages
          THEN ws'.sent = Append(ws.sent, Cancelled) /\ ws'.closed
          ELSE /\ ws'.sent = ws.sent /\ ws'.closed = ws.closed
               /\ ws'.pc = ws.pc /\ ws'.calls = ws.calls /\ ws'.late = ws.late ]_vars

\* a first message was ignored and a second one cancelled the session
C6_Witness ==
    /\ ws.received = 2 /\ ws.closed /\ ws.pc = "inflight"
    /\ ws.message \in CancelMessages
    /\ ws.sent = <<Progress(0, "starting"), Progress(30, "fetching"), Cancelled>>

\* the invocation a task id decodes to
Decoded == DecodeTaskId(ws.id)
KnownModel(v) == \E i \in DOMAIN doc.servers : v = JsStr(ModelId(doc, doc.servers[i]))
KnownTool(v) == v.t = "string" /\ v.v \in DOMAIN createTools(rev, doc).map

\* C7: a session opened with a task id that does not decode, or whose model
\* is not in the Models catalog, or whose tool is missing or not in
\* ToolInvocationMap, sends exactly one error event ("Invalid task ID format"
\* when the decoding failed), closes the socket, sends no progress event and
\* makes no call.
C7_InvalidTaskRefused ==
    (ws.pc \notin {"idle", "connecting"}) =>
        /\ Decoded.threw =>
              /\ ws.sent = <<ErrorEvent("Invalid task ID format")>>
              /\ ws.closed /\ ws.calls = 0
        /\ (~Decoded.threw /\ Decoded.value.t = "object"
              /\ (~KnownModel(Member(Decoded.value, K_model))
                    \/ ~KnownTool(Member(Decoded.value, K_tool)))) =>
              /\ Len(ws.sent) = 1 /\ ws.sent[1].event = "error"
              /\ ws.closed /\ ws.calls = 0

\* C8: every session ends with a terminal event and a closed socket: once
\* onOpen has returned and no call is in flight, the session has sent
\* complete, error or cancelled and closed the socket.
C8_NoHalfOpenSession ==
    ws.pc \in {"done", "threw"} =>
        /\ ws.closed
        /\ \E i \in DOMAIN ws.sent : IsTerminal(ws.sent[i])

\* ------------------------------------------------------------- claims on the task id
\* C9: for every invocation, the task id POST /stream makes of it (JSON, then
\* base64) is made without failure, and decoding it as the session does
\* (base64, then JSON) gives back a value equal to the invocation.
C9_TaskIdRoundTrip ==
    /\ (codec.pc = "replied" /\ codec.reply.http \notin {400, 404}) =>
          (codec.reply.http = 200 /\ codec.reply.type = "stream_created")
    /\ codec.pc = "decoded" =>
          codec.decoded = Returned(codec.body)

\* ------------------------------------------------------------- claims on the catalog
\* an operation createTools is meant to keep: a method of validMethods, and
\* every declared path parameter in the path
Eligible(op) ==
    /\ ToLowerCase(op.method) \in validMethods
    /\ PathParamsInPath(op)

InCatalog(op) ==
    \E i \in DOMAIN build.result.items : build.result.items[i].name = MethodAndPath(op)

\* C10: the tool ids of the catalog are pairwise distinct; of two operations
\* with the same operationId (declared or derived) the first in iteration
\* order is in the catalog and the later one is not.
C10_FirstOperationWins ==
    build.pc = "built" =>
        /\ \A i, j \in DOMAIN build.result.items :
              i # j => build.result.items[i].id # build.result.items[j].id
        /\ \A i, j \in DOMAIN doc.ops :
              (i < j /\ Eligible(doc.ops[i]) /\ Eligible(doc.ops[j])
                 /\ OperationId(doc.ops[i]) = OperationId(doc.ops[j])) =>
                    ~InCatalog(doc.ops[j])
        /\ \A j \in DOMAIN doc.ops :
              (Eligible(doc.ops[j])
                 /\ \A i \in 1..(j - 1) :
                       Eligible(doc.ops[i]) => OperationId(doc.ops[i]) # OperationId(doc.ops[j]))
                 => InCatalog(doc.ops[j])

\* the operations before doc.ops[j] that createTools keeps
KeptBefore(j) == {i \in 1..(j - 1) : Eligible(doc.ops[i])}

\* C11 (createTools of src/unnamed/part_000): an operation declaring a path
\* parameter that is not in its path as {name} or :name gives no tool, no
\* toolMap entry and no contentTypeMap entry, and does not take its
\* operationId from a later operation; an operation whose path parameters are
\* all in the path is in the catalog whenever its method is valid and no
\* earlier kept operation has its id.
C11_PathParameterCheck ==
    (rev = "part_000" /\ build.pc = "built") =>
        /\ \A j \in DOMAIN doc.ops :
              ~PathParamsInPath(doc.ops[j]) =>
                  /\ ~InCatalog(doc.ops[j])
                  /\ \A k \in DOMAIN build.result.map :
                        build.result.map[k] # MethodAndPath(doc.ops[j])
        /\ DOMAIN build.result.map = {build.result.items[i].id : i \in DOMAIN build.result.items}
        /\ DOMAIN build.result.contentTypes = DOMAIN build.result.map
        /\ \A j \in DOMAIN doc.ops :
              (PathParamsInPath(doc.ops[j])
                 /\ ToLowerCase(doc.ops[j].method) \in validMethods
                 /\ \A i \in KeptBefore(j) : OperationId(doc.ops[i]) # OperationId(doc.ops[j]))
                 => InCatalog(doc.ops[j])

\* an operation with a path parameter missing from its path was dropped, and
\* a later operation with the same operationId is in the catalog
C11_Witness ==
    /\ rev = "part_000" /\ build.pc = "built"
    /\ \E i, j \in DOMAIN doc.ops :
          /\ i < j
          /\ ~PathParamsInPath(doc.ops[i])
          /\ ToLowerCase(doc.ops[i].method) \in validMethods
          /\ OperationId(doc.ops[i]) = OperationId(doc.ops[j])
          /\ InCatalog(doc.ops[j]) /\ ~InCatalog(doc.ops[i])

\* ------------------------------------------------------------- claims on createModels
IsLowerAlnum(c) == c \in Range(LowerAlpha) \cup Digits

\* the length of the longest prefix of s made of lower-case letters and digits
RECURSIVE WordLen(_)
WordLen(s) == IF s = <<>> \/ ~IsLowerAlnum(Head(s)) THEN 0 ELSE 1 + WordLen(Tail(s))

\* the maximal runs of lower-case letters and digits of s, in order
RECURSIVE Words(_)
Words(s) ==
    IF s = <<>> THEN <<>>
    ELSE IF ~IsLowerAlnum(Head(s)) THEN Words(Tail(s))
    ELSE <<SubSeq(s, 1, WordLen(s))>> \o Words(SubSeq(s, WordLen(s) + 1, Len(s)))

RECURSIVE JoinUnderscore(_)
JoinUnderscore(ws_) ==
    IF ws_ = <<>> THEN <<>>
    ELSE IF Len(ws_) = 1 THEN ws_[1]
    ELSE ws_[1] \o <<"_">> \o JoinUnderscore(Tail(ws_))

\* the slug of the claim: the runs of [a-z0-9] of the lower-cased title,
\* joined by single underscores
Slug(title) == JoinUnderscore(Words(ToLowerCase(title)))

\* C14: createModels gives one model per server, in the order of the servers,
\* with id api:<slug(title)>:<url>; a second run gives the same list.
C14_ModelPerServer ==
    listing.pc = "listed" =>
        /\ Len(listing.last) = Len(doc.servers)
        /\ \A i \in DOMAIN doc.servers :
              listing.last[i].id
                 = <<"a","p","i",":">> \o Slug(doc.title) \o <<":">> \o doc.servers[i]
        /\ listing.last = listing.first

\* two runs on a document with two servers whose title has capitals, runs of
\* separators inside and separators at both ends
C14_Witness ==
    /\ listing.runs = 2 /\ doc.title = T_spaced /\ doc.servers = <<U_two, U_one>>
    /\ listing.last[1].id = <<"a","p","i",":","p","e","t","_","s","t","o","r","e","_","v","2",":">> \o U_two
    /\ listing.last[2].id = <<"a","p","i",":","p","e","t","_","s","t","o","r","e","_","v","2",":">> \o U_one

\* ------------------------------------------------------------------ C16
SchemaNames == {N_Pet, N_Owner, N_Shelter, N_Zoo}

IsRegistered(name) ==
    /\ doc.schemas # Undefined
    /\ \E i \in 1..Len(doc.schemas.fields) : doc.schemas.fields[i][1] = name

RegisteredSchema(name) ==
    doc.schemas.fields[CHOOSE i \in 1..Len(doc.schemas.fields) :
                           doc.schemas.fields[i][1] = name][2]

C16_Resolved ==
    \A name \in SchemaNames :
        (refs.pc \in {"called", "repeated"} /\ refs.schema = ComponentRef(name)
            /\ IsRegistered(name)) =>
            /\ refs.first = Returned(RegisteredSchema(name))
            /\ refs.pc = "repeated" => refs.second = refs.first

\* C16: for a document whose component schemas contain X, findSchema of
\* {"$ref": "#/components/schemas/X"} returns exactly the schema registered under
\* X, returns the same again when repeated, and leaves the document unchanged.
C16_DirectReference == [](C16_Resolved) /\ [][doc' = doc]_vars

C16_Witness ==
    /\ refs.pc = "repeated"
    /\ refs.schema = ComponentRef(N_Owner)
    /\ IsRegistered(N_Owner)
    /\ IsRegistered(N_Pet)
    /\ refs.second = Returned(RegisteredSchema(N_Owner))

\* ------------------------------------------------------------------ C17
\* references whose target no document of SchemaDocs holds, or whose form is
\* none of the supported ones
UnresolvableRefs ==
    { ComponentRef(N_Nope), ExactDefsRef(N_Shelter, N_Nope), ExactDefsRef(N_Nope, N_Addr),
      DefsRef(N_Nope),
      Ref(<<"#","/","d","e","f","i","n","i","t","i","o","n","s","/">> \o N_Pet),
      Ref(<<"p","e","t",".","j","s","o","n">>) }

\* C17: findSchema fails with an error for every reference whose target is absent
\* or whose form is unsupported; it never returns null or undefined for one.
C17_AbsentTargetThrows ==
    (refs.pc \in {"called", "repeated"} /\ refs.schema \in UnresolvableRefs) =>
        refs.first = Thrown

\* ------------------------------------------------------------------ C15
HasTool(op) ==
    \E j \in DOMAIN build.result.items : build.result.items[j].name = MethodAndPath(op)

ToolOf(op) ==
    build.result.items[CHOOSE j \in DOMAIN build.result.items :
                           build.result.items[j].name = MethodAndPath(op)]

\* two JSON objects with the same members, in whatever order
SameMembers(a, b) ==
    /\ a.t = "object" /\ b.t = "object"
    /\ Range(a.fields) = Range(b.fields)
    /\ Len(a.fields) = Len(b.fields)

OnlyOnePathParameter(op) ==
    /\ op.parameters.defined
    /\ Len(op.parameters.list) = 1
    /\ op.parameters.list[1].in = S_path
    /\ op.parameters.list[1].required
    /\ op.parameters.list[1].description = <<>>
    /\ ~op.requestBody.defined

\* C15: for an operation whose only input is one required path parameter p
\* with schema S (no description, no request body), the tool's parameters
\* are {type: object, properties: {"path-p": S}, required: ["path-p"]}, the
\* property holding S and nothing else.
C15_SinglePathParameter ==
    build.pc = "built" =>
        \A i \in DOMAIN doc.ops :
            (OnlyOnePathParameter(doc.ops[i]) /\ HasTool(doc.ops[i])) =>
                LET p == doc.ops[i].parameters.list[1]
                    key == S_path \o <<"-">> \o p.name
                    tp == ToolOf(doc.ops[i]).parameters
                IN  /\ tp # Undefined
                    /\ Keys(tp) = <<K_type, K_properties, K_required>>
                    /\ Member(tp, K_type) = JsStr(S_object)
                    /\ Keys(Member(tp, K_properties)) = <<key>>
                    /\ SameMembers(Member(Member(tp, K_properties), key), p.schema)
                    /\ Member(tp, K_required) = JsArr(<<JsStr(key)>>)

\* ------------------------------------------------------------------ C19
BodyRegistered(op) ==
    /\ op.requestBody.defined /\ op.requestBody.hasContent
    /\ \E i \in DOMAIN op.requestBody.content :
          op.requestBody.content[i][1] = S_json /\ op.requestBody.content[i][2] # Undefined

ExpectedRequired(op) ==
    { JsStr(op.parameters.list[i].in \o <<"-">> \o op.parameters.list[i].name) :
        i \in {j \in DOMAIN op.parameters.list : op.parameters.list[j].required} }
    \cup (IF BodyRegistered(op) /\ op.requestBody.required THEN {JsStr(K_body)} ELSE {})

\* C19: a tool's required list is exactly the keys <in>-<name> of the
\* parameters declared required: true, plus body whenever the request body is
\* required and a body property was registered, also for an operation that
\* declares parameters next to its required JSON body.
C19_RequiredList ==
    build.pc = "built" =>
        \A i \in DOMAIN doc.ops :
            (HasTool(doc.ops[i]) /\ ToolOf(doc.ops[i]).parameters # Undefined) =>
                Range(Member(ToolOf(doc.ops[i]).parameters, K_required).items)
                    = ExpectedRequired(doc.ops[i])

\* ------------------------------------------------------------------ C20
\* every run of characters outside [A-Za-z0-9] becomes one _
RECURSIVE CollapseNonAlnum(_)
CollapseNonAlnum(s) ==
    IF s = <<>> THEN s
    ELSE IF IsAlnumI(Head(s)) THEN <<Head(s)>> \o CollapseNonAlnum(Tail(s))
    ELSE IF Len(s) > 1 /\ ~IsAlnumI(s[2]) THEN CollapseNonAlnum(Tail(s))
    ELSE <<"_">> \o CollapseNonAlnum(Tail(s))

RECURSIVE StripUnderscores(_)
StripUnderscores(s) ==
    IF s # <<>> /\ Head(s) = "_" THEN StripUnderscores(Tail(s))
    ELSE IF s # <<>> /\ s[Len(s)] = "_" THEN StripUnderscores(SubSeq(s, 1, Len(s) - 1))
    ELSE s

\* C20: a tool of an operation without operationId has the id
\* <method>_<path with every run of non-alphanumerics replaced by one _ and
\* trimmed>; a declared operationId is used unchanged.
C20_DerivedOperationId ==
    build.pc = "built" =>
        \A i \in DOMAIN doc.ops :
            HasTool(doc.ops[i]) =>
                ToolOf(doc.ops[i]).id =
                    IF doc.ops[i].operationId # <<>> THEN doc.ops[i].operationId
                    ELSE doc.ops[i].method \o <<"_">>
                         \o StripUnderscores(CollapseNonAlnum(doc.ops[i].path))

\* ------------------------------------------------------------------ C12
\* the request carries what the validation of its endpoint asks for
SsePasses ==
    /\ sse.req.parse = "object"
    /\ sse.req.method = "tools/call"
    /\ IsToolId(sse.req.name)

WsPasses ==
    /\ ~Decoded.threw
    /\ KnownModel(Member(Decoded.value, K_model))
    /\ IsToolId(Member(Decoded.value, K_tool))

RequiredKeysOf(tool) ==
    LET item == SseCatalog.items[CHOOSE i \in DOMAIN SseCatalog.items :
                                     JsStr(SseCatalog.items[i].id) = tool]
    IN  IF item.parameters = Undefined THEN <<>>
        ELSE [i \in DOMAIN Member(item.parameters, K_required).items |->
                 Member(item.parameters, K_required).items[i].v]

\* a required key is absent when `parameters` has no member of that name
IsAbsent(key, parameters) ==
    ~(parameters.t = "object" /\ \E i \in DOMAIN parameters.fields : parameters.fields[i][1] = key)

InvokePasses ==
    /\ \/ KnownModel(invoke.body.model)
       \/ invoke.body.model = Undefined
    /\ IsToolId(invoke.body.tool)
    /\ \A i \in DOMAIN RequiredKeysOf(invoke.body.tool) :
          ~IsAbsent(RequiredKeysOf(invoke.body.tool)[i], invoke.body.parameters)

\* C12: an invocation that passes validation issues exactly one outbound
\* request, whether the call succeeds or fails; one that validation rejects
\* (unknown model, missing or unknown tool, missing required parameter,
\* undecodable token) issues none.
C12_OneRequestPerInvocation ==
    /\ sse.pc \in {"awaiting", "replied"} => sse.calls = IF SsePasses THEN 1 ELSE 0
    /\ ws.pc \in {"inflight", "done", "threw"} => ws.calls = IF WsPasses THEN 1 ELSE 0
    /\ invoke.pc \in {"awaiting", "replied"} =>
          Len(invoke.requests) = IF InvokePasses THEN 1 ELSE 0

C12_Witness ==
    /\ invoke.pc = "replied"
    /\ InvokePasses
    /\ invoke.answer # Absent
    /\ ~invoke.answer.ok
    /\ Len(invoke.requests) = 1

\* ------------------------------------------------------------------ C13
RECURSIVE AbsentKeys(_, _)
AbsentKeys(keys, parameters) ==
    IF keys = <<>> THEN <<>>
    ELSE (IF IsAbsent(Head(keys), parameters) THEN <<Head(keys)>> ELSE <<>>)
         \o AbsentKeys(Tail(keys), parameters)

HasRequiredList ==
    /\ IsToolId(invoke.body.tool)
    /\ SseCatalog.items[CHOOSE i \in DOMAIN SseCatalog.items :
                            JsStr(SseCatalog.items[i].id) = invoke.body.tool].parameters
          # Undefined

Outcome(r, d, req, answer) ==
    IF req.parse # "object" THEN ParseErrorReply
    ELSE IF req.method \notin DispatchTable(r) THEN MethodNotFoundReply(req)
    ELSE IF req.method = "notifications/initialized" THEN NoContent
    ELSE IF req.method # "tools/call" THEN JsonRpcResult(req.id, [kind |-> req.method])
    ELSE IF ~Truthy(req.name) \/ ~Truthy(Lookup(createTools(r, d).map, req.name.v))
         THEN (IF r = "part_000" THEN ToolNotFoundReply(req) ELSE ToolNotFoundReplyMcpTs(req))
    ELSE IF Lookup(createTools(r, d).map, req.name.v).t # "string" THEN ParseErrorReply
    ELSE IF r = "part_000"
         THEN (IF answer.ok THEN CallSucceededReply(req, answer)
               ELSE CallFailedReply(req, answer))
         ELSE (IF answer.ok THEN CallSucceededReplyMcpTs(req, answer)
               ELSE CallFailedReplyMcpTs(req, answer))

C18_SameReply ==
    sse.pc = "replied" => sse.reply = Outcome(rev, doc, sse.req, sse.answer)

\* C18: the reply to a POST /sse request is a function of the document, the
\* request and the upstream's answer: after any sequence of earlier requests
\* (none included) the reply is the one an endpoint that has served nothing
\* gives, and no request changes the document or leaves anything behind on
\* the endpoint for a later request.
C18_HistoryFree ==
    /\ [](C18_SameReply)
    /\ [][/\ doc' = doc
          /\ rev' = rev
          /\ sse'.pc = "idle" => sse' = IdleSse]_vars

C18_Witness ==
    /\ served >= 1
    /\ sse.pc = "replied"
    /\ sse.req.parse = "object"
    /\ sse.req.method = "tools/call"
    /\ sse.answer # Absent
    /\ sse.reply = Outcome(rev, doc, sse.req, sse.answer)

\* ------------------------------------------------------------------ C21
\* the segments of a path template, split at "/"
RECURSIVE Segments(_, _)
Segments(path, current) ==
    IF path = <<>> THEN <<current>>
    ELSE IF Head(path) = "/" THEN <<current>> \o Segments(Tail(path), <<>>)
    ELSE Segments(Tail(path), Append(current, Head(path)))

RECURSIVE JoinSlash(_)
JoinSlash(segments) ==
    IF Len(segments) = 1 THEN Head(segments)
    ELSE Head(segments) \o <<"/">> \o JoinSlash(Tail(segments))

\* the name a segment is the placeholder of, <<>> when it is none
PlaceholderName(segment) ==
    IF Len(segment) > 2 /\ Head(segment) = "{" /\ segment[Len(segment)] = "}"
    THEN SubSeq(segment, 2, Len(segment) - 1)
    ELSE IF Len(segment) > 1 /\ Head(segment) = ":" THEN Tail(segment)
    ELSE <<>>

HasPathParameter(name, pathParameters) ==
    \E i \in DOMAIN pathParameters : pathParameters[i][1] = name

PathParameterValue(name, pathParameters) ==
    pathParameters[CHOOSE i \in DOMAIN pathParameters : pathParameters[i][1] = name][2]

SubstitutedEverywhere(path, pathParameters) ==
    JoinSlash([i \in DOMAIN Segments(path, <<>>) |->
                  IF HasPathParameter(PlaceholderName(Segments(path, <<>>)[i]), pathParameters)
                  THEN encodeURIComponent(
                           PathParameterValue(PlaceholderName(Segments(path, <<>>)[i]),
                                              pathParameters))
                  ELSE Segments(path, <<>>)[i]])

\* C21: buildApiUrl replaces every occurrence of {name} and of :name by the
\* percent-encoded value of path parameter name, also when a placeholder
\* occurs more than once; placeholders without a parameter and placeholders
\* for other names are left unchanged.
C21_EveryOccurrenceReplaced ==
    urlcall.pc \in {"substituted", "built"} =>
        urlcall.processedPath = SubstitutedEverywhere(urlcall.path, urlcall.pathParameters)

\* ------------------------------------------------------------------ C22
SchemeHttp == <<"h","t","t","p",":","/","/">>
SchemeHttps == <<"h","t","t","p","s",":","/","/">>
HasScheme(text) == StartsWith(text, SchemeHttp) \/ StartsWith(text, SchemeHttps)

WithoutTrailingSlash(host) ==
    IF host[Len(host)] = "/" THEN SubSeq(host, 1, Len(host) - 1) ELSE host

ExpectedBase(host, processedPath) ==
    (IF HasScheme(host) THEN <<>> ELSE SchemeHttps)
    \o WithoutTrailingSlash(host)
    \o (IF Head(processedPath) = "/" THEN <<>> ELSE <<"/">>)
    \o processedPath

\* C22: for a non-empty host and path the URL buildApiUrl returns begins with
\* a scheme: a host that starts with http:// or https:// is used as given
\* (without its trailing slash), any other host gets https:// prepended; a
\* non-empty query string follows after "?", an empty one adds nothing.
C22_UrlHasScheme ==
    urlcall.pc = "built" =>
        /\ HasScheme(urlcall.result)
        /\ urlcall.result =
              ExpectedBase(urlcall.host, urlcall.processedPath)
              \o (IF urlcall.queryParameters = <<>> THEN <<>>
                  ELSE <<"?">> \o QueryString(urlcall.queryParameters))

\* ------------------------------------------------------------------ C23
IsReference(schema) == schema.t = "object" /\ HasOwn(schema, K_ref)

\* C23: the schema findSchema returns for a reference is never itself a
\* reference, for direct #/components/schemas/<Name> references and for
\* $defs references alike.
C23_NeverAReference ==
    (/\ refs.pc \in {"called", "repeated"}
     /\ IsReference(refs.schema)
     /\ ~refs.first.threw
     /\ Truthy(refs.first.value)) =>
        ~IsReference(refs.first.value)

\* ------------------------------------------------------------------ C24
IsArrayOfReference(schema) ==
    /\ schema.t = "object"
    /\ HasOwn(schema, K_type) /\ Member(schema, K_type) = JsStr(S_array)
    /\ HasOwn(schema, K_items) /\ IsReference(Member(schema, K_items))

\* the item schema the array is to carry: the resolved reference, or the
\* null-typed schema when the reference does not resolve
ExpectedItems(items) ==
    IF findSchema(refs.tr, doc, items).threw THEN S_nullType
    ELSE IF ~Truthy(findSchema(refs.tr, doc, items).value) THEN S_nullType
    ELSE findSchema(refs.tr, doc, items).value

\* C24: for an array schema whose items is a reference, findSchema returns the
\* array with items replaced by the resolved schema, and when the reference
\* cannot be resolved (absent component, no $defs match, unsupported form) it
\* returns the array with null-typed items and does not fail.
C24_ArrayItems ==
    (/\ refs.pc \in {"called", "repeated"}
     /\ refs.tr = "types_ts"
     /\ IsArrayOfReference(refs.schema)) =>
        /\ ~refs.first.threw
        /\ refs.first.value =
              Assign(refs.schema, K_items, ExpectedItems(Member(refs.schema, K_items)))

\* ------------------------------------------------------------------ C25
\* the $defs entry `name` of a schema, Undefined when it has none
DefsEntry(holder, name) ==
    IF holder.t = "object" /\ HasOwn(holder, K_defs) /\ HasOwn(Member(holder, K_defs), name)
    THEN Member(Member(holder, K_defs), name)
    ELSE Undefined

RootEntry(name) ==
    IF doc.defs # Undefined /\ HasOwn(doc.defs, name) THEN Member(doc.defs, name)
    ELSE Undefined

\* the component schemas whose $defs hold `name`, in enumeration order
ComponentsWith(name) ==
    IF doc.schemas = Undefined THEN <<>>
    ELSE SelectSeq(doc.schemas.fields, LAMBDA f : DefsEntry(f[2], name) # Undefined)

IsBareRefTo(schema, name) ==
    schema.t = "object" /\ HasOwn(schema, K_ref)
    /\ Member(schema, K_ref) = JsStr(DefsPrefix \o name)

\* C25: a bare #/$defs/<path> reference resolves to the first match among
\* the $defs of the local context schema, the document-root $defs and the
\* $defs of the component schemas; an earlier match shadows the later ones,
\* and of several matching component schemas the first in enumeration order
\* is returned, the call succeeding.
C25_DefsLookupOrder ==
    (refs.pc \in {"called", "repeated"} /\ IsBareRefTo(refs.schema, N_Addr)) =>
        IF DefsEntry(refs.schema, N_Addr) # Undefined
        THEN refs.first = Returned(DefsEntry(refs.schema, N_Addr))
        ELSE IF RootEntry(N_Addr) # Undefined
        THEN refs.first = Returned(RootEntry(N_Addr))
        ELSE IF ComponentsWith(N_Addr) # <<>>
        THEN refs.first = Returned(DefsEntry(ComponentsWith(N_Addr)[1][2], N_Addr))
        ELSE refs.first = Thrown

C25_Witness ==
    /\ refs.pc = "called"
    /\ refs.schema = DefsRef(N_Addr)
    /\ RootEntry(N_Addr) = Undefined
    /\ Len(ComponentsWith(N_Addr)) = 2
    /\ refs.first = Returned(Described(S_string, <<"s">>))

\* ------------------------------------------------------------------ C26
\* the chain of $defs targets that starts at `cur` comes back to a reference
\* it has already passed
RECURSIVE LeadsBack(_, _, _)
LeadsBack(cur, ctx, passed) ==
    /\ IsDefsCall(cur)
    /\ \E target \in {DefsResultOf(cur, ctx)} :
          /\ ~target.threw
          /\ IsReference(target.value)
          /\ \/ Member(target.value, K_ref) \in passed
             \/ LeadsBack(target.value, ContextOf(ctx, target.value),
                          passed \cup {Member(target.value, K_ref)})

Cyclic ==
    /\ refs.pc \notin {"enter", "idle", "start"}
    /\ LeadsBack(refs.schema, ContextOf(Undefined, refs.schema), {Prop(refs.schema, K_ref)})

Acyclic ==
    /\ refs.pc \notin {"enter", "idle", "start"}
    /\ ~LeadsBack(refs.schema, ContextOf(Undefined, refs.schema), {Prop(refs.schema, K_ref)})

\* C26: schema resolution has no cycle detection: findSchema on a $defs
\* reference whose chain of targets leads back to itself never returns, the
\* recursion going on until the stack is exhausted, while on a reference
\* whose chain is acyclic it terminates without exhausting the stack.
C26_NoCycleDetection ==
    /\ [](Cyclic => refs.pc # "returned")
    /\ Cyclic ~> (refs.pc = "overflow")
    /\ [](Acyclic => refs.pc # "overflow")
    /\ Acyclic ~> (refs.pc \in {"returned", "threw"})

C26_Witness ==
    /\ refs.pc = "overflow"
    /\ refs.schema = DefsRef(N_Ping)
    /\ refs.depth = MaxRefDepth

\* ------------------------------------------------------------------ C27
TerminalsSent == {i \in DOMAIN ws.sent : IsTerminal(ws.sent[i])}

C27_OneTerminal ==
    /\ Cardinality(TerminalsSent) <= 1
    /\ \A i \in TerminalsSent : i = Len(ws.sent) /\ ws.closed

SessionOfTaskId ==
    /\ codec.pc = "replied"
    /\ codec.reply.http = 200
    /\ ws.pc # "connecting"
    /\ ws.id = codec.reply.taskId

ValidationErrors ==
    {ErrorEvent("Model not found"), ErrorEvent("Tool not specified or not found")}

\* C28: every taskId of a stream_created reply passes the model and tool
\* validation of the WebSocket session opened with it on the same document,
\* for every body POST /stream accepts, one that omits `model` included: the
\* session sends progress 0 and never one of the two validation errors.
C28_TaskIdPassesValidation ==
    SessionOfTaskId =>
        /\ ws.sent # <<>>
        /\ ws.sent[1] = Progress(0, "starting")
        /\ \A i \in DOMAIN ws.sent : ws.sent[i] \notin ValidationErrors

\* the same, for the bodies that state their model
C28_StatedModelPasses ==
    (SessionOfTaskId /\ Member(codec.body, K_model) # Undefined) =>
        /\ ws.sent # <<>>
        /\ ws.sent[1] = Progress(0, "starting")

\* ------------------------------------------------------------------ C29
\* the callback leaves one entry per operation gone through, null when the
\* operation is skipped: entry i of the accumulator is built from doc.ops[i]
BuiltTools == {i \in DOMAIN build.acc.items : build.acc.items[i] # Null}
BuiltIds == {build.acc.items[i].id : i \in BuiltTools}

C29_KeysAgree ==
    /\ DOMAIN build.acc.toolMap = BuiltIds
    /\ DOMAIN build.acc.contentTypeMap = BuiltIds
    /\ build.pc = "built" =>
          /\ DOMAIN build.result.map = {build.result.items[i].id : i \in DOMAIN build.result.items}
          /\ DOMAIN build.result.contentTypes = DOMAIN build.result.map

C29_Recovered(i) ==
    LET entry == build.acc.toolMap[build.acc.items[i].id]
    IN  /\ MethodOf(entry) = ToUpperCase(doc.ops[i].method)
        /\ PathOf(entry) = doc.ops[i].path

\* C29: after createTools the keys of ToolInvocationMap and of ContentTypeMap
\* are exactly the ids of the tools of the catalog, and for every tool the
\* method and the path recovered from ToolInvocationMap[id] by the split at
\* the space are the uppercased method and the path of its operation.
C29_CatalogAndMapsAgree ==
    build.pc \in {"mapping", "built"} =>
        /\ C29_KeysAgree
        /\ \A i \in BuiltTools : C29_Recovered(i)

\* the same, for the tools whose path has no space in it
C29_AgreeWithoutSpace ==
    build.pc \in {"mapping", "built"} =>
        /\ C29_KeysAgree
        /\ \A i \in BuiltTools : " " \notin Range(doc.ops[i].path) => C29_Recovered(i)

\* ------------------------------------------------------------------ C30
\* the servers whose Model the body selects
SelectedServers ==
    {i \in DOMAIN doc.servers : invoke.body.model = JsStr(ModelId(doc, doc.servers[i]))}

Targets(url, server) ==
    LET base == WithoutTrailingSlash(server)
    IN  /\ Len(url) > Len(base)
        /\ SubSeq(url, 1, Len(base)) = base
        /\ url[Len(base) + 1] = "/"

\* C30: POST /invoke with `model` set to the id of a Model of the catalog
\* sends its outbound request to the server URL that Model was derived
\* from; with two servers, the second model targets the second server.
C30_TargetsSelectedServer ==
    (invoke.pc \in {"awaiting", "replied"} /\ invoke.requests # <<>>) =>
        \A i \in SelectedServers : Targets(invoke.requests[1].url, doc.servers[i])

\* the same, for the model of the first server and for a body without model
C30_FirstServerTargeted ==
    (invoke.pc \in {"awaiting", "replied"} /\ invoke.requests # <<>>) =>
        /\ Targets(invoke.requests[1].url, doc.servers[1])
        /\ \A i \in SelectedServers : i = 1 => Targets(invoke.requests[1].url, doc.servers[i])

====
